---- MODULE Spec2Model ----
(***************************************************************************)
(* Model of the impact-physics engine (src/backend/impact_physics.py), of   *)
(* the orbital mechanics (src/backend/nasa_api.py), of the effect          *)
(* estimators (src/backend/impact.py) and of their callers.  A behaviour   *)
(* of the model is one call: Init draws the operation and its arguments,   *)
(* and the actions of that operation compute what the call returns or      *)
(* raises; a function with a loop takes one step per iteration.  Under     *)
(* ConcSpec a second call runs concurrently with the first.  Under         *)
(* GameSpec a behaviour is a sequence of calls of update_performance on    *)
(* the AdaptiveDifficulty object of src/backend/ml_models.py, and under    *)
(* ScenarioSpec a sequence of calls of get_scenario_parameters on one base *)
(* scenario.                                                               *)
(*                                                                         *)
(* Python floats are modelled in two ways.                                 *)
(*  - The physics functions use decimal floating point with a four-digit   *)
(*    mantissa (value m * 10^e, 1000 <= |m| <= 9999, or m = 0), rounded    *)
(*    after every operation as the hardware rounds a double.  The          *)
(*    reserved exponent EInf stands for float('inf').                      *)
(*  - The deflection functions use IEEE-754 binary64 itself: a double is   *)
(*    a sign, 53 mantissa bits and an exponent, and division and           *)
(*    multiplication round to nearest, ties to even.                       *)
(***************************************************************************)
EXTENDS Integers, Sequences, FiniteSets, TLC

\* pc, op, args, ret and frame are the running call: its position, the
\* function called, its arguments, its outcome and its local variables;
\* peer is a second call running concurrently, a record of the same five;
\* adaptive_difficulty is the global AdaptiveDifficulty object of ml_models.py
VARIABLES pc, op, args, ret, frame, OVERPRESSURE_TABLE, peer, adaptive_difficulty

vars == <<pc, op, args, ret, frame, OVERPRESSURE_TABLE, peer, adaptive_difficulty>>

(***************************************************************************)
(* Decimal floating point (the model of a Python float in the physics      *)
(* functions).                                                             *)
(***************************************************************************)
Abs(n) == IF n < 0 THEN -n ELSE n

Sgn(n) == IF n < 0 THEN -1 ELSE IF n = 0 THEN 0 ELSE 1

RECURSIVE Pow10(_)
Pow10(k) == IF k <= 0 THEN 1 ELSE 10 * Pow10(k - 1)

RECURSIVE Digits(_)
Digits(n) == IF n < 10 THEN 1 ELSE 1 + Digits(n \div 10)

F(m, e) == [m |-> m, e |-> e]

Zero == F(0, 0)

\* float('inf'): a reserved exponent, as in IEEE 754
EInf == 999

Inf == F(1, EInf)

IsInf(x) == x.e = EInf

\* round s * a * 10^e, a > 0 of d digits, to four significant digits (half
\* away from zero)
NormDigits(s, a, e, d) ==
    IF d <= 4
    THEN F(s * a * Pow10(4 - d), e - (4 - d))
    ELSE LET q == (a + Pow10(d - 4) \div 2) \div Pow10(d - 4)
         IN IF q = 10000
            THEN F(s * 1000, e + (d - 4) + 1)
            ELSE F(s * q, e + (d - 4))

\* round the integer n * 10^e to four significant digits
Norm(n, e) ==
    IF n = 0 THEN Zero ELSE NormDigits(Sgn(n), Abs(n), e, Digits(Abs(n)))

\* an integer as a float
Num(n) == Norm(n, 0)

FNeg(x) == F(-x.m, x.e)

FMul(x, y) ==
    IF IsInf(x) \/ IsInf(y)
    THEN F(Sgn(x.m) * Sgn(y.m), EInf)
    ELSE Norm(x.m * y.m, x.e + y.e)

\* x / y for y # 0
FDiv(x, y) ==
    IF IsInf(x) THEN F(Sgn(x.m) * Sgn(y.m), EInf)
    ELSE IF IsInf(y) THEN Zero
    ELSE LET n == (Abs(x.m) * 100000) \div Abs(y.m)
         IN Norm(Sgn(x.m) * Sgn(y.m) * n, x.e - y.e - 5)

FAdd(x, y) ==
    IF IsInf(x) THEN x
    ELSE IF IsInf(y) THEN y
    ELSE IF x.m = 0 THEN y
    ELSE IF y.m = 0 THEN x
    ELSE IF x.e - y.e > 5 THEN x
    ELSE IF y.e - x.e > 5 THEN y
    ELSE IF x.e >= y.e
         THEN Norm(x.m * Pow10(x.e - y.e) + y.m, y.e)
         ELSE Norm(y.m * Pow10(y.e - x.e) + x.m, x.e)

FSub(x, y) == FAdd(x, FNeg(y))

FLt(x, y) ==
    IF Sgn(x.m) # Sgn(y.m) THEN Sgn(x.m) < Sgn(y.m)
    ELSE IF x.m = 0 THEN FALSE
    ELSE IF x.m > 0
         THEN x.e < y.e \/ (x.e = y.e /\ x.m < y.m)
         ELSE x.e > y.e \/ (x.e = y.e /\ x.m < y.m)

FLe(x, y) == ~FLt(y, x)

FGt(x, y) == FLt(y, x)

FGe(x, y) == ~FLt(x, y)

FMax(x, y) == IF FLt(x, y) THEN y ELSE x

(***************************************************************************)
(* math.log10, math.log, math.exp and the ** operator on positive floats.  *)
(***************************************************************************)
RECURSIVE Pow2(_)
Pow2(k) == IF k <= 0 THEN 1 ELSE 2 * Pow2(k - 1)

\* log2 of Y / 2^14, for Y / 2^14 in [1, 2), in units of 2^-k... 2^-1 (k bits)
\* by repeated squaring
RECURSIVE Log2Frac(_, _)
Log2Frac(Y, k) ==
    IF k = 0 THEN 0
    ELSE LET s == (Y * Y) \div 16384
         IN IF s >= 32768
            THEN Pow2(k - 1) + Log2Frac(s \div 2, k - 1)
            ELSE Log2Frac(s, k - 1)

\* 100000 * log10(m / 1000) for a mantissa m in 1000..9999
Log10Mant(m) ==
    LET j == IF m >= 8000 THEN 3 ELSE IF m >= 4000 THEN 2
             ELSE IF m >= 2000 THEN 1 ELSE 0
        Y == (m * 16384) \div (1000 * Pow2(j))
        L2 == j * 4096 + Log2Frac(Y, 12)
    IN (L2 * 30103) \div 4096

\* math.log10(x) for a finite x > 0
MathLog10(x) == Norm((x.e + 3) * 100000 + Log10Mant(x.m), -5)

\* math.log(x) for a finite x > 0
MathLog(x) == FMul(MathLog10(x), F(2303, -3))

\* floor(t * 10^4) for a finite float t of magnitude below 10^5
ToFixed4(t) ==
    IF t.e + 4 >= 0 THEN t.m * Pow10(t.e + 4)
    ELSE IF -(t.e + 4) > 9 THEN (IF t.m < 0 THEN -1 ELSE 0)
    ELSE t.m \div Pow10(-(t.e + 4))

Exp10Tenths == <<10000, 12589, 15849, 19953, 25119, 31623, 39811, 50119, 63096, 79433>>

Exp10Hundredths == <<10000, 10233, 10471, 10715, 10965, 11220, 11482, 11749, 12023, 12303>>

\* 10 ** t for a finite float t
Exp10(t) ==
    LET T == ToFixed4(t)
        n == T \div 10000
        g == T % 10000
        a == Exp10Tenths[(g \div 1000) + 1]
        b == Exp10Hundredths[((g \div 100) % 10) + 1]
        x == ((g % 100) * 23026) \div 10000
        c == 10000 + x + (x * x) \div 20000
        ab == (a * b) \div 10000
    IN Norm((ab * c) \div 10000, n - 4)

\* math.exp(x)
MathExp(x) == Exp10(FMul(x, F(4343, -4)))

\* x ** y for a float x >= 0 and a float y > 0
MathPow(x, y) ==
    IF x.m = 0 THEN Zero
    ELSE IF IsInf(x) THEN Inf
    ELSE Exp10(FMul(y, MathLog10(x)))

(***************************************************************************)
(* abs, math.sqrt, math.sin, math.cos and math.atan2.  The trigonometric   *)
(* functions work on angles in units of 10^-4 radian; TwoPi is 2 pi in     *)
(* that unit.  An argument too large for its four digits to tell its phase *)
(* is reduced modulo TwoPi like any other.                                 *)
(***************************************************************************)
FAbs(x) == F(Abs(x.m), x.e)

\* the integer square root of n >= 0, by Newton's iteration from the guess g
RECURSIVE ISqrtFrom(_, _)
ISqrtFrom(n, g) ==
    LET h == (g + n \div g) \div 2
    IN IF h >= g THEN g ELSE ISqrtFrom(n, h)

\* math.sqrt(x) for a finite x >= 0
MathSqrt(x) ==
    IF x.m = 0 THEN Zero
    ELSE LET odd == x.e % 2 = 1
             m2 == IF odd THEN x.m * 10 ELSE x.m
             e2 == IF odd THEN x.e - 1 ELSE x.e
         IN Norm(ISqrtFrom(m2 * 10000, 40000), (e2 - 4) \div 2)

TwoPi == 62832

RECURSIVE Pow10Mod(_)
Pow10Mod(k) == IF k <= 0 THEN 1 ELSE (10 * Pow10Mod(k - 1)) % TwoPi

\* |x| modulo 2 pi, in units of 10^-4, for a finite float x
ReducedAngle(x) ==
    LET k == x.e + 4
    IN IF k >= 0 THEN (Abs(x.m) * Pow10Mod(k)) % TwoPi
       ELSE IF -k > 4 THEN 0
       ELSE Abs(x.m) \div Pow10(-k)

\* 10^4 * sin(r / 10^4) for r in 0 .. TwoPi / 4, by the Taylor series
SinSeries(r) ==
    LET x2 == (r * r) \div 10000
        t3 == (r * x2) \div 60000
        t5 == (t3 * x2) \div 200000
        t7 == (t5 * x2) \div 420000
        t9 == (t7 * x2) \div 720000
    IN r - t3 + t5 - t7 + t9

\* 10^4 * sin(r / 10^4) for r in 0 .. TwoPi - 1
SinFixed(r) ==
    LET half == TwoPi \div 2
        h == IF r >= half THEN r - half ELSE r
        q == IF h > half \div 2 THEN half - h ELSE h
    IN IF r >= half THEN -SinSeries(q) ELSE SinSeries(q)

\* math.sin(x) for a finite x
MathSin(x) ==
    IF x.m = 0 THEN Zero
    ELSE IF x.e <= -6 THEN x
    ELSE Norm(Sgn(x.m) * SinFixed(ReducedAngle(x)), -4)

\* math.cos(x) for a finite x
MathCos(x) == Norm(SinFixed((ReducedAngle(x) + TwoPi \div 4) % TwoPi), -4)

\* 10^4 * atan(u / 10^4) for |u| <= 4142, by the Taylor series
AtanSeries(u) ==
    LET a == Abs(u)
        u2 == (a * a) \div 10000
        u3 == (a * u2) \div 10000
        u5 == (u3 * u2) \div 10000
        u7 == (u5 * u2) \div 10000
        u9 == (u7 * u2) \div 10000
    IN Sgn(u) * (a - u3 \div 3 + u5 \div 5 - u7 \div 7 + u9 \div 9)

\* 10^4 * atan(t / 10^4) for t in 0 .. 10000:
\* atan(t) = pi/4 + atan((t - 1) / (t + 1))
AtanFixed(t) ==
    IF t > 4142
    THEN TwoPi \div 8 - AtanSeries(((10000 - t) * 10000) \div (t + 10000))
    ELSE AtanSeries(t)

\* math.atan2(y, x) for finite floats
MathAtan2(y, x) ==
    IF y.m = 0 /\ x.m = 0 THEN Zero
    ELSE LET ay == FAbs(y)
             ax == FAbs(x)
             steep == FLt(ax, ay)
             t == IF steep THEN FDiv(ax, ay) ELSE FDiv(ay, ax)
             base == AtanFixed(ToFixed4(t))
             first == IF steep THEN TwoPi \div 4 - base ELSE base
             upper == IF x.m < 0 THEN TwoPi \div 2 - first ELSE first
         IN Norm((IF y.m < 0 THEN -1 ELSE 1) * upper, -4)

(***************************************************************************)
(* IEEE-754 binary64 (the model of a Python float in the deflection        *)
(* functions).  A double is [s, b, x]: sign s in {-1, 0, 1}, mantissa b (a *)
(* sequence of DBL_MANT_DIG bits, most significant first, b[1] = 1 unless  *)
(* the value is zero) and exponent x of b[1]; its value is                 *)
(* s * (b[1] . b[2] b[3] ...) * 2^x.  The operands of the model stay far   *)
(* from the overflow and underflow thresholds, so x is unbounded.          *)
(***************************************************************************)
DBL_MANT_DIG == 53

Zeros(n) == [i \in 1..n |-> 0]

DblZero == [s |-> 0, b |-> Zeros(DBL_MANT_DIG), x |-> 0]

\* the bits of the natural number n, most significant first (<<>> for 0)
RECURSIVE IntBits(_)
IntBits(n) == IF n = 0 THEN <<>> ELSE Append(IntBits(n \div 2), n % 2)

\* the natural number whose bits are b, most significant first
RECURSIVE BitsInt(_)
BitsInt(b) ==
    IF Len(b) = 0 THEN 0
    ELSE 2 * BitsInt(SubSeq(b, 1, Len(b) - 1)) + b[Len(b)]

\* the quotient bits b followed by the bits of more, with its remainder
FracAppend(b, more) == [b |-> b \o more.b, r |-> more.r]

RECURSIVE FracBits(_, _, _)

\* the quotient bits of first followed by the next n
FracNext(first, t, n) == FracAppend(first.b, FracBits(first.r, t, n))

\* the next n quotient bits of r / t (0 <= r < t) and the remainder left;
\* the bits are produced in two halves
FracBits(r, t, n) ==
    IF n = 0 THEN [b |-> <<>>, r |-> r]
    ELSE IF n = 1 THEN [b |-> <<(2 * r) \div t>>, r |-> (2 * r) % t]
    ELSE FracNext(FracBits(r, t, n \div 2), t, n - n \div 2)

\* b + 1 on a bit sequence (the carry out of the top bit is dropped): the
\* last 0 becomes 1 and the ones after it become 0
BitsInc(b) ==
    [i \in 1..Len(b) |->
        IF \E k \in (i + 1)..Len(b) : b[k] = 0 THEN b[i]
        ELSE 1 - b[i]]

AllOnes(b) == \A i \in 1..Len(b) : b[i] = 1

\* round to nearest, ties to even: keep is the DBL_MANT_DIG bits kept,
\* up tells whether the discarded part exceeds half a unit in the last
\* place, tie whether it equals half a unit
DblRound(s, keep, x, up, tie) ==
    IF up \/ (tie /\ keep[DBL_MANT_DIG] = 1)
    THEN IF AllOnes(keep)
         THEN [s |-> s, b |-> <<1>> \o Zeros(DBL_MANT_DIG - 1), x |-> x + 1]
         ELSE [s |-> s, b |-> BitsInc(keep), x |-> x]
    ELSE [s |-> s, b |-> keep, x |-> x]

\* the integer n (|n| < 2^31) as a double: exact
IntToDbl(n) ==
    IF n = 0 THEN DblZero
    ELSE LET ib == IntBits(Abs(n))
         IN [s |-> Sgn(n), b |-> ib \o Zeros(DBL_MANT_DIG - Len(ib)), x |-> Len(ib) - 1]

\* the least j >= 0 with a * 2^j >= t
RECURSIVE ShiftUp(_, _)
ShiftUp(a, t) == IF a >= t THEN 0 ELSE 1 + ShiftUp(2 * a, t)

\* the double nearest to n / d, for integers n and d # 0 below 2^30 in magnitude
DblDivInt(n, d) ==
    IF n = 0 THEN DblZero
    ELSE LET a == Abs(n)
             t == Abs(d)
             j == ShiftUp(a, t)
             aa == a * Pow2(j)
             ib == IntBits(aa \div t)
             fr == FracBits(aa % t, t, DBL_MANT_DIG - Len(ib))
         IN DblRound(Sgn(n) * Sgn(d), ib \o fr.b, Len(ib) - 1 - j,
                     2 * fr.r > t, 2 * fr.r = t)

Reverse(b) == [i \in 1..Len(b) |-> b[Len(b) + 1 - i]]

\* the product bits b followed by the bits of more, with its carry
MulAppend(b, more) == [b |-> b \o more.b, c |-> more.c]

RECURSIVE MulCarry(_, _, _)

\* the product bits of low followed by those of the bits high
MulNext(low, high, t) == MulAppend(low.b, MulCarry(high, t, low.c))

\* the Len(b) low bits of b * t + c, least significant first, and the carry
\* (b * t + c) \div 2^Len(b), for b given least significant first; the bits
\* are produced in two halves
MulCarry(b, t, c) ==
    IF Len(b) = 0 THEN [b |-> <<>>, c |-> c]
    ELSE IF Len(b) = 1
    THEN [b |-> <<(b[1] * t + c) % 2>>, c |-> (b[1] * t + c) \div 2]
    ELSE MulNext(MulCarry(SubSeq(b, 1, Len(b) \div 2), t, c),
                 SubSeq(b, Len(b) \div 2 + 1, Len(b)), t)

\* the product bits of low followed by the bits of its carry
MulEnd(low) == low.b \o Reverse(IntBits(low.c))

\* the bits of b * t + c, least significant first, for b given least
\* significant first
MulBits(b, t, c) == MulEnd(MulCarry(b, t, c))

\* the double nearest to d * n, for a double d and an integer n below 2^30 in magnitude
DblMulInt(d, n) ==
    IF d.s = 0 \/ n = 0 THEN DblZero
    ELSE LET p == Reverse(MulBits(Reverse(d.b), Abs(n), 0))
             L == Len(p)
             keep == SubSeq(p, 1, DBL_MANT_DIG)
             rest == SubSeq(p, DBL_MANT_DIG + 1, L)
             guard == L > DBL_MANT_DIG /\ rest[1] = 1
             sticky == \E i \in 2..Len(rest) : rest[i] = 1
         IN DblRound(d.s * Sgn(n), keep, d.x + (L - DBL_MANT_DIG),
                     guard /\ sticky, guard /\ ~sticky)

\* floor(|d| * 2^k) for a double d with |d| * 2^k < 2^31
DblFloorScaled(d, k) ==
    IF d.s = 0 \/ d.x + k < 0 THEN 0
    ELSE BitsInt(SubSeq(d.b, 1, d.x + k + 1))

(***************************************************************************)
(* Python values other than floats, and the outcome of a call.             *)
(***************************************************************************)
None == [tag |-> "None"]

IsNone(v) == DOMAIN v = {"tag"}

Return(v) == [kind |-> "return", value |-> v]

Raise(e) == [kind |-> "raise", exc |-> e]

Pending == [kind |-> "pending"]

\* no second call
NoPeer == [pc |-> "done", op |-> "none", args |-> None, ret |-> Pending, frame |-> None]

(***************************************************************************)
(* impact_physics.py: constants                                            *)
(***************************************************************************)
G_EARTH == F(9807, -3)

JOULES_PER_MEGATON == F(4184, 12)

RHO_AIR_SEA == F(1225, -3)

ATM_SCALE_H == F(7640, 0)

RHO_ASTEROID_DEFAULT == F(3000, 0)

RHO_TARGET_DEFAULT == F(2700, 0)

EARTH_RADIUS_M == 6371000

SECONDS_PER_YEAR == 31557600

MathPi == F(3142, -3)

(***************************************************************************)
(* impact_physics.py: mass, energy, magnitude                              *)
(***************************************************************************)
mass_from_diameter(diameter_m, density_kg_m3) ==
    LET r == FDiv(diameter_m, Num(2))
    IN FMul(FMul(FMul(FDiv(Num(4), Num(3)), MathPi), FMul(FMul(r, r), r)),
            density_kg_m3)

kinetic_energy_joules(diameter_m, velocity_m_s, density_kg_m3) ==
    LET m == mass_from_diameter(diameter_m, density_kg_m3)
    IN FMul(FMul(F(5000, -4), m), FMul(velocity_m_s, velocity_m_s))

joules_to_megatons(E_joules) == FDiv(E_joules, JOULES_PER_MEGATON)

\* energy_to_eq_magnitude reporting magnitude 0 instead of no value
energy_to_eq_magnitude_zero(E_joules) ==
    IF FLe(E_joules, Zero)
    THEN Zero
    ELSE FDiv(FSub(MathLog10(E_joules), F(4800, -3)), F(1500, -3))

energy_to_eq_magnitude(E_joules) ==
    IF FLe(E_joules, Zero)
    THEN None
    ELSE FDiv(FSub(MathLog10(E_joules), F(4800, -3)), F(1500, -3))

(***************************************************************************)
(* impact_physics.py: crater scaling.  The impactor diameter, velocity and *)
(* density are non-negative (a negative base of ** gives a complex number  *)
(* in Python; the boundary validates the inputs).                          *)
(***************************************************************************)
\* D_km of crater_diameter_final_m: the Holsapple Pi-scaling formula
HolsappleKm(diameter_m, velocity_m_s, density_impactor, density_target, g, k) ==
    LET d_km == FDiv(diameter_m, Num(1000))
        v_km_s == FDiv(velocity_m_s, Num(1000))
    IN FMul(FMul(FMul(FMul(k, MathPow(g, F(-2200, -4))),
                      MathPow(FDiv(density_impactor, density_target),
                              F(3000, -4))),
                 MathPow(d_km, F(7800, -4))),
            MathPow(v_km_s, F(4400, -4)))

crater_diameter_final_m(diameter_m, velocity_m_s, density_impactor, density_target, g, k) ==
    LET D_km == HolsappleKm(diameter_m, velocity_m_s, density_impactor,
                            density_target, g, k)
        D_m == FMul(D_km, Num(1000))
    IN FMax(Zero, IF FGt(D_km, Num(2)) THEN FMul(D_m, F(1300, -3)) ELSE D_m)

\* crater_depth_m with the boundary 2000 in the simple branch
crater_depth_m_le(crater_diameter_m) ==
    IF FLe(crater_diameter_m, Num(2000))
    THEN FDiv(crater_diameter_m, Num(5))
    ELSE FDiv(crater_diameter_m, Num(10))

crater_depth_m(crater_diameter_m) ==
    IF FLt(crater_diameter_m, Num(2000))
    THEN FDiv(crater_diameter_m, Num(5))
    ELSE FDiv(crater_diameter_m, Num(10))

(***************************************************************************)
(* impact_physics.py: atmospheric breakup                                  *)
(***************************************************************************)
dynamic_pressure_at_altitude(v_ms, alt_m, rho0, H) ==
    LET rho == FMul(rho0, MathExp(FDiv(FNeg(alt_m), H)))
    IN FMul(FMul(F(5000, -4), rho), FMul(v_ms, v_ms))

\* the body of breakup_altitude_for_strength with its results replaced:
\* nonpos for strength_pa <= 0, ground for rho_needed > rho0, below and
\* above for z < 0 and z > 120000 (keep: the result is z itself)
BreakupVariant(v_ms, strength_pa, rho0, H, nonpos, ground, below, above, keep) ==
    IF FLe(strength_pa, Zero) THEN nonpos
    ELSE IF FMul(v_ms, v_ms) = Zero THEN Raise("ZeroDivisionError")
    ELSE LET rho_needed == FDiv(FMul(Num(2), strength_pa), FMul(v_ms, v_ms))
         IN IF FGt(rho_needed, rho0) THEN ground
            ELSE LET z == FMul(FNeg(H), MathLog(FDiv(rho_needed, rho0)))
                 IN IF FLt(z, Zero) THEN below
                    ELSE IF FGt(z, Num(120000)) /\ ~keep THEN above
                    ELSE Return(z)

\* without the clamp at 120000
breakup_altitude_for_strength_noclamp(v_ms, strength_pa, rho0, H) ==
    BreakupVariant(v_ms, strength_pa, rho0, H,
                   Return(None), Return(Zero), Return(Zero), Return(Zero), TRUE)

\* no value for fragmentation at or below ground
breakup_altitude_for_strength_groundnone(v_ms, strength_pa, rho0, H) ==
    BreakupVariant(v_ms, strength_pa, rho0, H,
                   Return(None), Return(None), Return(Zero), Return(Num(120000)), FALSE)

\* an error for fragmentation at or below ground
breakup_altitude_for_strength_groundraise(v_ms, strength_pa, rho0, H) ==
    BreakupVariant(v_ms, strength_pa, rho0, H,
                   Return(None), Raise("ValueError"), Return(Zero), Return(Num(120000)), FALSE)

\* an error for non-positive strength
breakup_altitude_for_strength_strict(v_ms, strength_pa, rho0, H) ==
    BreakupVariant(v_ms, strength_pa, rho0, H,
                   Raise("ValueError"), Return(Zero), Return(Zero), Return(Num(120000)), FALSE)

\* both clamps return 0.0
breakup_altitude_for_strength_clampzero(v_ms, strength_pa, rho0, H) ==
    BreakupVariant(v_ms, strength_pa, rho0, H,
                   Return(None), Return(Zero), Return(Zero), Return(Zero), FALSE)

\* the outcome of breakup_altitude_for_strength: the value returned, or the
\* ZeroDivisionError of 2.0 * strength_pa / (v_ms ** 2) at v_ms = 0
breakup_altitude_for_strength(v_ms, strength_pa, rho0, H) ==
    IF FLe(strength_pa, Zero) THEN Return(None)
    ELSE IF FMul(v_ms, v_ms) = Zero THEN Raise("ZeroDivisionError")
    ELSE LET rho_needed == FDiv(FMul(Num(2), strength_pa), FMul(v_ms, v_ms))
         IN IF FGt(rho_needed, rho0) THEN Return(Zero)
            ELSE LET z == FMul(FNeg(H), MathLog(FDiv(rho_needed, rho0)))
                 IN IF FLt(z, Zero) THEN Return(Zero)
                    ELSE IF FGt(z, Num(120000)) THEN Return(Num(120000))
                    ELSE Return(z)

\* is_airburst with >= for >
is_airburst_ge(breakup_altitude_m, threshold_m) ==
    ~IsNone(breakup_altitude_m) /\ FGe(breakup_altitude_m, threshold_m)

is_airburst(breakup_altitude_m, threshold_m) ==
    ~IsNone(breakup_altitude_m) /\ FGt(breakup_altitude_m, threshold_m)

(***************************************************************************)
(* impact_physics.py: damage radii                                         *)
(***************************************************************************)
simple_damage_radii_m(crater_diameter_m) ==
    LET R_c == FDiv(crater_diameter_m, Num(2))
    IN [crater_radius_m |-> R_c,
        severe_damage_m |-> FMul(Num(3), R_c),
        moderate_damage_m |-> FMul(Num(8), R_c),
        thermal_ignition_m |-> FMul(Num(12), R_c),
        light_damage_m |-> FMul(Num(20), R_c)]

hopkinson_cranz_scaled_distance(radius_m, yield_megatons) ==
    IF FLe(yield_megatons, Zero) THEN Inf
    ELSE FDiv(radius_m, MathPow(yield_megatons, FDiv(Num(1), Num(3))))

radius_from_scaled_distance(Z, yield_megatons) ==
    FMul(Z, MathPow(yield_megatons, FDiv(Num(1), Num(3))))

\* the value of the module global OVERPRESSURE_TABLE after import:
\* (Z_min, Z_max, overpressure_psi)
OverpressureTableInit ==
    << <<Zero, Num(10), Num(100)>>,
       <<Num(10), Num(20), Num(50)>>,
       <<Num(20), Num(30), Num(20)>>,
       <<Num(30), Num(50), Num(10)>>,
       <<Num(50), Num(80), Num(5)>>,
       <<Num(80), Num(150), Num(2)>>,
       <<Num(150), Num(300), Num(1)>>,
       <<Num(300), Num(600), F(5000, -4)>>,
       <<Num(600), Inf, F(1000, -4)>> >>

\* the loop of overpressure_from_scaled_distance with Z <= Z_max for Z < Z_max
RECURSIVE ScanScaledDistance_closed(_, _, _)
ScanScaledDistance_closed(table, i, Z) ==
    IF i > Len(table) THEN 0
    ELSE IF FLe(table[i][1], Z) /\ FLe(Z, table[i][2]) THEN i
    ELSE ScanScaledDistance_closed(table, i + 1, Z)

\* the for loop of overpressure_from_scaled_distance from bin i on: the
\* index of the first bin with Z_min <= Z < Z_max, or 0 when the loop ends
RECURSIVE ScanScaledDistance(_, _, _)
ScanScaledDistance(table, i, Z) ==
    IF i > Len(table) THEN 0
    ELSE IF FLe(table[i][1], Z) /\ FLt(Z, table[i][2]) THEN i
    ELSE ScanScaledDistance(table, i + 1, Z)

overpressure_from_scaled_distance(Z) ==
    LET i == ScanScaledDistance(OVERPRESSURE_TABLE, 1, Z)
    IN IF i = 0 THEN Zero ELSE OVERPRESSURE_TABLE[i][3]

\* the loop of radius_for_overpressure with psi >= target_psi for psi <= target_psi
RECURSIVE ScanOverpressure_ge(_, _, _)
ScanOverpressure_ge(table, i, target_psi) ==
    IF i > Len(table) THEN 0
    ELSE IF FGe(table[i][3], target_psi) THEN i
    ELSE ScanOverpressure_ge(table, i + 1, target_psi)

\* the for loop of radius_for_overpressure from bin i on: the index of the
\* first bin with psi <= target_psi, or 0 when the loop ends without a break
RECURSIVE ScanOverpressure(_, _, _)
ScanOverpressure(table, i, target_psi) ==
    IF i > Len(table) THEN 0
    ELSE IF FLe(table[i][3], target_psi) THEN i
    ELSE ScanOverpressure(table, i + 1, target_psi)

\* radius_for_overpressure that uses the lower edge Z_min of the bin
radius_for_overpressure_zmin(target_psi, yield_megatons) ==
    LET i == ScanOverpressure(OVERPRESSURE_TABLE, 1, target_psi)
        Z == IF i = 0 THEN Num(5) ELSE OVERPRESSURE_TABLE[i][1]
    IN radius_from_scaled_distance(Z, yield_megatons)

radius_for_overpressure(target_psi, yield_megatons) ==
    LET i == ScanOverpressure(OVERPRESSURE_TABLE, 1, target_psi)
        Z == IF i = 0 THEN Num(5)
             ELSE FDiv(FAdd(OVERPRESSURE_TABLE[i][1], OVERPRESSURE_TABLE[i][2]),
                       Num(2))
    IN radius_from_scaled_distance(Z, yield_megatons)

calculate_overpressure_radii(yield_megatons) ==
    [R_100psi_m |-> radius_for_overpressure(Num(100), yield_megatons),
     R_20psi_m |-> radius_for_overpressure(Num(20), yield_megatons),
     R_5psi_m |-> radius_for_overpressure(Num(5), yield_megatons),
     R_1psi_m |-> radius_for_overpressure(Num(1), yield_megatons),
     R_0_5psi_m |-> radius_for_overpressure(F(5000, -4), yield_megatons)]

(***************************************************************************)
(* impact_physics.py: deflection.  shift_m and lead_time_seconds are       *)
(* integer-valued floats, delta_v_ms is any double.                        *)
(***************************************************************************)
\* deflection_dv_for_shift with the guard lead_time_seconds < 0: the division
\* by a zero lead time raises ZeroDivisionError
deflection_dv_for_shift_lt(shift_m, lead_time_seconds) ==
    IF lead_time_seconds < 0
    THEN Raise("ValueError")
    ELSE IF lead_time_seconds = 0 THEN Raise("ZeroDivisionError")
    ELSE Return(DblDivInt(shift_m, lead_time_seconds))

deflection_dv_for_shift(shift_m, lead_time_seconds) ==
    IF lead_time_seconds <= 0
    THEN Raise("ValueError")
    ELSE Return(DblDivInt(shift_m, lead_time_seconds))

\* shift_from_dv that multiplies by twice the lead time
shift_from_dv_twice(delta_v_ms, lead_time_seconds) ==
    DblMulInt(DblMulInt(delta_v_ms, lead_time_seconds), 2)

shift_from_dv(delta_v_ms, lead_time_seconds) ==
    DblMulInt(delta_v_ms, lead_time_seconds)

(***************************************************************************)
(* app.py: the /api/deflect handler.  delta_v is any double,               *)
(* time_before_impact an integer number of days.  The location fields and  *)
(* the unit conversions of the result are functions of the same locals     *)
(* that raise nothing and are left out of the result.                      *)
(***************************************************************************)
\* a > b for bit sequences of the same length, most significant bit first
BitsGt(a, b) ==
    \E i \in 1..Len(a) :
        /\ a[i] > b[i]
        /\ \A j \in 1..(i - 1) : a[j] = b[j]

\* d > n for a double d and an integer 0 < n < 2^31
DblGtInt(d, n) ==
    /\ d.s = 1
    /\ \/ d.x > IntToDbl(n).x
       \/ d.x = IntToDbl(n).x /\ BitsGt(d.b, IntToDbl(n).b)

\* lead_time_seconds = time_before_impact * 24 * 3600
LeadTimeSeconds(time_before_impact) == time_before_impact * 24 * 3600

\* deflect_asteroid up to the call of deflection_dv_for_shift: the lead
\* time and the shift of shift_from_dv are locals of the handler
DeflectEnter(data) ==
    [pc |-> "required_dv", ret |-> Pending,
     frame |-> [lead_time_seconds |-> LeadTimeSeconds(data.time_before_impact),
                deflection_distance |->
                    shift_from_dv(data.delta_v,
                                  LeadTimeSeconds(data.time_before_impact))]]

\* the result of deflect_asteroid from its locals
DeflectResult(data, fr, earth_radius_dv, km_100_dv) ==
    [deflection |->
         [delta_v_m_s |-> data.delta_v,
          time_before_impact_days |-> data.time_before_impact,
          lead_time_seconds |-> fr.lead_time_seconds,
          distance_shifted_m |-> fr.deflection_distance,
          success |-> DblGtInt(fr.deflection_distance, EARTH_RADIUS_M)],
     required_dv_examples |->
         [earth_radius_shift |->
              [shift_m |-> EARTH_RADIUS_M, required_dv_m_s |-> earth_radius_dv],
          km_100_shift |->
              [shift_m |-> 100000, required_dv_m_s |-> km_100_dv]]]

\* the end of deflect_asteroid with an except clause around the two calls
\* of deflection_dv_for_shift that answers with an error document
DeflectRespondTo_caught(data, fr, earth_radius_dv, km_100_dv) ==
    IF earth_radius_dv.kind = "raise" \/ km_100_dv.kind = "raise"
    THEN Return([error |-> "invalid input"])
    ELSE Return(DeflectResult(data, fr, earth_radius_dv.value, km_100_dv.value))

\* the end of deflect_asteroid after the two calls of
\* deflection_dv_for_shift: an exception of either call leaves the handler
DeflectRespondTo(data, fr, earth_radius_dv, km_100_dv) ==
    IF earth_radius_dv.kind = "raise" THEN earth_radius_dv
    ELSE IF km_100_dv.kind = "raise" THEN km_100_dv
    ELSE Return(DeflectResult(data, fr, earth_radius_dv.value, km_100_dv.value))

\* deflect_asteroid from the call of deflection_dv_for_shift on
DeflectRespond(data, fr) ==
    [pc |-> "done",
     ret |-> DeflectRespondTo(data, fr,
                 deflection_dv_for_shift(EARTH_RADIUS_M, fr.lead_time_seconds),
                 deflection_dv_for_shift(100000, fr.lead_time_seconds)),
     frame |-> fr]

(***************************************************************************)
(* impact_physics.py: calculate_impact_effects                             *)
(***************************************************************************)
\* {**a, **b}: the keys of both, the value of b where both have the key
DictMerge(a, b) == b @@ a

\* the body of calculate_impact_effects after breakup_altitude_for_strength
\* has returned breakup_alt_m, with its two tests of is_airburst_event made
\* switchable: zeroed tells whether an airburst zeroes the crater,
\* energy_only whether an airburst keeps the overpressure radii alone;
\* holsapple is the value of crater_diameter_final_m
ImpactEffectsVariantAt(diameter_m, velocity_m_s, density_kg_m3, strength_pa, impact_angle_deg, breakup_alt_m, holsapple, zeroed, energy_only) ==
    LET energy_j == kinetic_energy_joules(diameter_m, velocity_m_s, density_kg_m3)
        energy_mt == joules_to_megatons(energy_j)
        is_airburst_event == is_airburst(breakup_alt_m, Num(10000))
        crater_diam_m ==
            IF is_airburst_event /\ zeroed THEN Zero ELSE holsapple
        crater_depth_m_val ==
            IF is_airburst_event /\ zeroed THEN Zero
            ELSE crater_depth_m(crater_diam_m)
        alt_or_0 == IF IsNone(breakup_alt_m) \/ breakup_alt_m = Zero
                    THEN Zero ELSE breakup_alt_m
    IN Return(
        [inputs |-> [diameter_m |-> diameter_m,
                     velocity_m_s |-> velocity_m_s,
                     density_kg_m3 |-> density_kg_m3,
                     strength_pa |-> strength_pa,
                     impact_angle_deg |-> impact_angle_deg],
         basic |-> [mass_kg |-> mass_from_diameter(diameter_m, density_kg_m3),
                    energy_joules |-> energy_j,
                    energy_megatons |-> energy_mt,
                    eq_magnitude |-> energy_to_eq_magnitude(energy_j)],
         atmospheric |-> [breakup_altitude_m |-> breakup_alt_m,
                          is_airburst |-> is_airburst_event,
                          dynamic_pressure_pa |->
                              dynamic_pressure_at_altitude(velocity_m_s,
                                  alt_or_0, RHO_AIR_SEA, ATM_SCALE_H)],
         crater |-> [diameter_m |-> crater_diam_m,
                     depth_m |-> crater_depth_m_val,
                     radius_m |-> FDiv(crater_diam_m, Num(2))],
         radii_m |-> IF is_airburst_event /\ energy_only
                     THEN calculate_overpressure_radii(energy_mt)
                     ELSE DictMerge(simple_damage_radii_m(crater_diam_m),
                                    calculate_overpressure_radii(energy_mt))])

\* calculate_impact_effects with the two tests switchable
ImpactEffectsVariant(diameter_m, velocity_m_s, density_kg_m3, strength_pa, impact_angle_deg, zeroed, energy_only) ==
    LET breakup == breakup_altitude_for_strength(velocity_m_s, strength_pa,
                                                 RHO_AIR_SEA, ATM_SCALE_H)
    IN IF breakup.kind = "raise" THEN breakup
       ELSE ImpactEffectsVariantAt(diameter_m, velocity_m_s, density_kg_m3,
                strength_pa, impact_angle_deg, breakup.value,
                crater_diameter_final_m(diameter_m, velocity_m_s,
                    density_kg_m3, RHO_TARGET_DEFAULT, G_EARTH, Num(1)),
                zeroed, energy_only)

\* calculate_impact_effects that merges the crater-multiplier radii into the
\* result of an airburst as well
calculate_impact_effects_merged(diameter_m, velocity_m_s, density_kg_m3, strength_pa, impact_angle_deg) ==
    ImpactEffectsVariant(diameter_m, velocity_m_s, density_kg_m3, strength_pa,
                         impact_angle_deg, TRUE, FALSE)

\* calculate_impact_effects that computes the crater of an airburst as well
calculate_impact_effects_crater(diameter_m, velocity_m_s, density_kg_m3, strength_pa, impact_angle_deg) ==
    ImpactEffectsVariant(diameter_m, velocity_m_s, density_kg_m3, strength_pa,
                         impact_angle_deg, FALSE, TRUE)

\* calculate_impact_effects after breakup_altitude_for_strength has returned
\* breakup_alt_m; holsapple is the value of crater_diameter_final_m, which is
\* used, as it is called, only when the event is no airburst
ImpactEffectsAt(diameter_m, velocity_m_s, density_kg_m3, strength_pa, impact_angle_deg, breakup_alt_m, holsapple) ==
    LET mass_kg == mass_from_diameter(diameter_m, density_kg_m3)
        energy_j == kinetic_energy_joules(diameter_m, velocity_m_s, density_kg_m3)
        energy_mt == joules_to_megatons(energy_j)
        eq_magnitude == energy_to_eq_magnitude(energy_j)
        is_airburst_event == is_airburst(breakup_alt_m, Num(10000))
        crater_diam_m == IF is_airburst_event THEN Zero ELSE holsapple
        crater_depth_m_val ==
            IF is_airburst_event THEN Zero ELSE crater_depth_m(crater_diam_m)
        radii == IF is_airburst_event
                 THEN calculate_overpressure_radii(energy_mt)
                 ELSE DictMerge(simple_damage_radii_m(crater_diam_m),
                                calculate_overpressure_radii(energy_mt))
        alt_or_0 == IF IsNone(breakup_alt_m) \/ breakup_alt_m = Zero
                    THEN Zero ELSE breakup_alt_m
    IN Return(
        [inputs |-> [diameter_m |-> diameter_m,
                     velocity_m_s |-> velocity_m_s,
                     density_kg_m3 |-> density_kg_m3,
                     strength_pa |-> strength_pa,
                     impact_angle_deg |-> impact_angle_deg],
         basic |-> [mass_kg |-> mass_kg,
                    energy_joules |-> energy_j,
                    energy_megatons |-> energy_mt,
                    eq_magnitude |-> eq_magnitude],
         atmospheric |-> [breakup_altitude_m |-> breakup_alt_m,
                          is_airburst |-> is_airburst_event,
                          dynamic_pressure_pa |->
                              dynamic_pressure_at_altitude(velocity_m_s,
                                  alt_or_0, RHO_AIR_SEA, ATM_SCALE_H)],
         crater |-> [diameter_m |-> crater_diam_m,
                     depth_m |-> crater_depth_m_val,
                     radius_m |-> FDiv(crater_diam_m, Num(2))],
         radii_m |-> radii])

\* calculate_impact_effects: the error of breakup_altitude_for_strength, or
\* the dictionary of the effects
calculate_impact_effects(diameter_m, velocity_m_s, density_kg_m3, strength_pa, impact_angle_deg) ==
    LET breakup == breakup_altitude_for_strength(velocity_m_s, strength_pa,
                                                 RHO_AIR_SEA, ATM_SCALE_H)
    IN IF breakup.kind = "raise" THEN breakup
       ELSE ImpactEffectsAt(diameter_m, velocity_m_s, density_kg_m3,
                strength_pa, impact_angle_deg, breakup.value,
                crater_diameter_final_m(diameter_m, velocity_m_s,
                    density_kg_m3, RHO_TARGET_DEFAULT, G_EARTH, Num(1)))

(***************************************************************************)
(* impact.py: the blast radius and the estimators that use it.  The radii, *)
(* the density and the TNT equivalent are finite floats; impact_region is  *)
(* a string.                                                               *)
(***************************************************************************)
\* int(x) for a finite float x: the fraction is dropped
PyInt(x) ==
    IF x.e >= 0 THEN x.m * Pow10(x.e)
    ELSE IF -x.e > 9 THEN 0
    ELSE Sgn(x.m) * (Abs(x.m) \div Pow10(-x.e))

calculate_blast_radius(tnt_equivalent) ==
    IF FLe(tnt_equivalent, Zero) THEN Zero
    ELSE FMul(Num(100),
              MathPow(FDiv(tnt_equivalent, Num(1000)), F(3333, -4)))

\* calculate_indirect_effects with else for elif impact_region == "ocean"
IndirectEffectsAt_else(blast_radius, impact_region) ==
    LET urban == impact_region = "urban"
    IN [economic_radius |->
            IF urban THEN FMul(FMul(blast_radius, Num(5)), Num(2))
            ELSE FMul(blast_radius, Num(5)),
        environmental_radius |->
            IF urban THEN FMul(blast_radius, Num(8))
            ELSE FMul(FMul(blast_radius, Num(8)), F(1500, -3)),
        health_radius |->
            IF urban THEN FMul(FMul(blast_radius, Num(3)), F(1500, -3))
            ELSE FMul(blast_radius, Num(3)),
        governance_radius |->
            IF urban THEN FMul(blast_radius, Num(6))
            ELSE FMul(FMul(blast_radius, Num(6)), F(8000, -4))]

\* calculate_indirect_effects after blast_radius = calculate_blast_radius(...)
IndirectEffectsAt(blast_radius, impact_region) ==
    LET economic_radius == FMul(blast_radius, Num(5))
        environmental_radius == FMul(blast_radius, Num(8))
        health_radius == FMul(blast_radius, Num(3))
        governance_radius == FMul(blast_radius, Num(6))
    IN [economic_radius |->
            IF impact_region = "urban" THEN FMul(economic_radius, Num(2))
            ELSE economic_radius,
        environmental_radius |->
            IF impact_region = "ocean"
            THEN FMul(environmental_radius, F(1500, -3))
            ELSE environmental_radius,
        health_radius |->
            IF impact_region = "urban" THEN FMul(health_radius, F(1500, -3))
            ELSE health_radius,
        governance_radius |->
            IF impact_region = "ocean"
            THEN FMul(governance_radius, F(8000, -4))
            ELSE governance_radius]

calculate_indirect_effects(tnt_equivalent, impact_region) ==
    IndirectEffectsAt(calculate_blast_radius(tnt_equivalent), impact_region)

\* calculate_casualties whose three areas grow with the radius, not with its
\* square
calculate_casualties_linear(blast_radius, population_density, impact_region) ==
    IF FLe(blast_radius, Zero) \/ FLe(population_density, Zero) THEN 0
    ELSE LET blast_area_km2 == FMul(MathPi, FDiv(blast_radius, Num(1000)))
             inner_area ==
                 FMul(MathPi, FDiv(FMul(blast_radius, F(5000, -4)), Num(1000)))
             outer_area ==
                 FMul(MathPi, FDiv(FMul(blast_radius, Num(2)), Num(1000)))
             middle_area == FSub(blast_area_km2, inner_area)
             casualties ==
                 FAdd(FAdd(FMul(FMul(inner_area, population_density), Num(1)),
                           FMul(FMul(middle_area, population_density),
                                F(5000, -4))),
                      FMul(FMul(FSub(outer_area, blast_area_km2),
                                population_density), F(1000, -4)))
         IN PyInt(IF impact_region = "urban" THEN FMul(casualties, F(1500, -3))
                  ELSE IF impact_region = "rural"
                  THEN FMul(casualties, F(7000, -4))
                  ELSE casualties)

\* the number of casualties, an integer; x ** 2 is x * x
calculate_casualties(blast_radius, population_density, impact_region) ==
    IF FLe(blast_radius, Zero) \/ FLe(population_density, Zero) THEN 0
    ELSE LET r_km == FDiv(blast_radius, Num(1000))
             r_inner == FDiv(FMul(blast_radius, F(5000, -4)), Num(1000))
             r_outer == FDiv(FMul(blast_radius, Num(2)), Num(1000))
             blast_area_km2 == FMul(MathPi, FMul(r_km, r_km))
             inner_area == FMul(MathPi, FMul(r_inner, r_inner))
             outer_area == FMul(MathPi, FMul(r_outer, r_outer))
             middle_area == FSub(blast_area_km2, inner_area)
             casualties ==
                 FAdd(FAdd(FMul(FMul(inner_area, population_density), Num(1)),
                           FMul(FMul(middle_area, population_density),
                                F(5000, -4))),
                      FMul(FMul(FSub(outer_area, blast_area_km2),
                                population_density), F(1000, -4)))
         IN PyInt(IF impact_region = "urban" THEN FMul(casualties, F(1500, -3))
                  ELSE IF impact_region = "rural"
                  THEN FMul(casualties, F(7000, -4))
                  ELSE casualties)

calculate_infrastructure_damage(blast_radius, thermal_radius, seismic_radius) ==
    [complete_destruction |->
         [radius |-> blast_radius,
          description |-> "Complete destruction of all structures"],
     severe_damage |->
         [radius |-> FMul(blast_radius, Num(2)),
          description |->
              "Severe structural damage, most buildings uninhabitable"],
     moderate_damage |->
         [radius |-> thermal_radius,
          description |-> "Moderate damage, fires, some structural damage"],
     minor_damage |->
         [radius |-> seismic_radius,
          description |-> "Minor damage, broken windows, ground shaking"]]

(***************************************************************************)
(* ml_models.py: AdaptiveDifficulty.  An object is the record of its       *)
(* attributes; a method is an operator from the object self to the object  *)
(* it leaves behind.  Scores, times and accuracies are finite floats, and  *)
(* datetime.now() is the number of the call.                               *)
(***************************************************************************)
\* AdaptiveDifficulty(): the object after __init__
AdaptiveDifficulty ==
    [player_performance |-> <<>>,
     difficulty_level |-> Num(1),
     performance_window |-> 10]

\* seq[-n:] for n > 0
LastN(seq, n) ==
    IF Len(seq) <= n THEN seq ELSE SubSeq(seq, Len(seq) - n + 1, Len(seq))

\* the sum of a sequence of floats, from the left
RECURSIVE FSum(_)
FSum(xs) ==
    IF Len(xs) = 0 THEN Zero
    ELSE FAdd(FSum(SubSeq(xs, 1, Len(xs) - 1)), xs[Len(xs)])

\* np.mean of a non-empty sequence of floats
NpMean(xs) == FDiv(FSum(xs), Num(Len(xs)))

FMin(x, y) == IF FLt(y, x) THEN y ELSE x

\* the difficulty level after the comparison of the two averages, without
\* the limits 3.0 and 0.5
AdjustedLevel_unlimited(difficulty_level, avg_score, avg_accuracy) ==
    IF FGt(avg_score, Num(100000)) /\ FGt(avg_accuracy, F(8000, -4))
    THEN FMul(difficulty_level, F(1100, -3))
    ELSE IF FLt(avg_score, Num(50000)) \/ FLt(avg_accuracy, F(5000, -4))
    THEN FMul(difficulty_level, F(9000, -4))
    ELSE difficulty_level

\* the if / elif of _adjust_difficulty on the two averages
AdjustedLevel(difficulty_level, avg_score, avg_accuracy) ==
    IF FGt(avg_score, Num(100000)) /\ FGt(avg_accuracy, F(8000, -4))
    THEN FMin(FMul(difficulty_level, F(1100, -3)), Num(3))
    ELSE IF FLt(avg_score, Num(50000)) \/ FLt(avg_accuracy, F(5000, -4))
    THEN FMax(FMul(difficulty_level, F(9000, -4)), F(5000, -4))
    ELSE difficulty_level

\* _adjust_difficulty with recent = self.player_performance[-5:]
AdjustWith(self, recent) ==
    [self EXCEPT !.difficulty_level =
        AdjustedLevel(self.difficulty_level,
            NpMean([i \in 1..Len(recent) |-> recent[i].score]),
            NpMean([i \in 1..Len(recent) |-> recent[i].deflection_accuracy]))]

_adjust_difficulty(self) ==
    IF Len(self.player_performance) < 3 THEN self
    ELSE AdjustWith(self, LastN(self.player_performance, 5))

\* update_performance after the append: the window, then _adjust_difficulty
KeepRecent(self, appended) ==
    _adjust_difficulty(
        [self EXCEPT !.player_performance =
            IF Len(appended) > self.performance_window
            THEN LastN(appended, self.performance_window)
            ELSE appended])

\* update_performance at the time now
update_performance(self, score, time_taken, deflection_accuracy, now) ==
    KeepRecent(self,
        Append(self.player_performance,
               [score |-> score, time_taken |-> time_taken,
                deflection_accuracy |-> deflection_accuracy,
                timestamp |-> now]))

get_difficulty_level(self) == self.difficulty_level

\* get_scenario_parameters on a base scenario that has the keys
\* time_to_impact and success_criteria: the outcome of the call, and
\* base_scenario as the call leaves it.  modified is a shallow copy, so
\* modified["asteroid"] and modified["success_criteria"] are the
\* dictionaries of base_scenario themselves and the two *= change them;
\* the assignment to modified["time_to_impact"] changes the copy alone.
\* A scenario without the key asteroid ends the call with KeyError before
\* anything is changed.
get_scenario_parameters(self, base_scenario) ==
    IF "asteroid" \notin DOMAIN base_scenario
    THEN [ret |-> Raise("KeyError"), base_scenario |-> base_scenario]
    ELSE [ret |-> Return(
              [base_scenario EXCEPT
                  !.asteroid.diameter = FMul(@, self.difficulty_level),
                  !.time_to_impact =
                      PyInt(FDiv(Num(@), self.difficulty_level)),
                  !.success_criteria.min_deflection_distance =
                      FMul(@, self.difficulty_level)]),
          base_scenario |->
              [base_scenario EXCEPT
                  !.asteroid.diameter = FMul(@, self.difficulty_level),
                  !.success_criteria.min_deflection_distance =
                      FMul(@, self.difficulty_level)]]

(***************************************************************************)
(* app.py: the /api/simulate handler.  The request gives diameter,         *)
(* velocity, density and strength as finite floats, impact_region as a     *)
(* string and population_density as a finite float; the location and the   *)
(* impact angle are copied into the result and take their defaults.        *)
(***************************************************************************)
\* d.get(k, default) for a dictionary d
DictGet(d, k, default) == IF k \in DOMAIN d THEN d[k] ELSE default

calculate_tsunami_radius(tnt_equivalent, ocean_depth) ==
    IF FLe(tnt_equivalent, Zero) THEN Zero
    ELSE FMul(FMul(Num(50),
                   MathPow(FDiv(tnt_equivalent, Num(1000)), F(3333, -4))),
              MathPow(FDiv(ocean_depth, Num(4000)), F(5000, -4)))

\* x / 1000 if x else None
KmOrNone(x) == IF IsNone(x) \/ x = Zero THEN None ELSE FDiv(x, Num(1000))

\* the result of simulate_impact from its locals
SimulateResult(data, effects, tsunami_radius, indirect_effects, blast_radius_m, thermal_radius_m, seismic_radius_m) ==
    [inputs |-> effects.inputs,
     asteroid |-> [diameter_m |-> data.diameter,
                   velocity_m_s |-> data.velocity,
                   density_kg_m3 |-> data.density,
                   mass_kg |-> effects.basic.mass_kg],
     impact |-> [kinetic_energy_joules |-> effects.basic.energy_joules,
                 tnt_megatons |-> effects.basic.energy_megatons,
                 earthquake_magnitude |-> effects.basic.eq_magnitude],
     atmospheric |-> effects.atmospheric,
     crater |-> effects.crater,
     radii_m |-> effects.radii_m,
     direct_effects |->
         [blast_radius_km |-> FDiv(blast_radius_m, Num(1000)),
          thermal_radius_km |-> FDiv(thermal_radius_m, Num(1000)),
          seismic_radius_km |-> FDiv(seismic_radius_m, Num(1000)),
          tsunami_radius_km |-> KmOrNone(tsunami_radius)],
     indirect_effects |->
         [economic_radius_km |->
              FDiv(indirect_effects.economic_radius, Num(1000)),
          environmental_radius_km |->
              FDiv(indirect_effects.environmental_radius, Num(1000)),
          health_radius_km |->
              FDiv(indirect_effects.health_radius, Num(1000)),
          governance_radius_km |->
              FDiv(indirect_effects.governance_radius, Num(1000))],
     casualties |->
         [estimated_casualties |->
              calculate_casualties(blast_radius_m, data.population_density,
                                   data.impact_region),
          population_density |-> data.population_density,
          impact_region |-> data.impact_region],
     infrastructure_damage |->
         calculate_infrastructure_damage(blast_radius_m, thermal_radius_m,
                                         seismic_radius_m),
     results |-> effects]

\* simulate_impact after calculate_impact_effects has returned effects;
\* tnt is effects['basic']['energy_joules'] / 4.184e9
SimulateWith(data, effects, tnt) ==
    SimulateResult(data, effects,
        IF data.impact_region = "ocean"
        THEN calculate_tsunami_radius(tnt, Num(4000)) ELSE None,
        calculate_indirect_effects(tnt, data.impact_region),
        DictGet(effects.radii_m, "R_5psi_m",
                FMul(effects.crater.diameter_m, Num(3))),
        DictGet(effects.radii_m, "thermal_ignition_m",
                FMul(effects.crater.diameter_m, Num(12))),
        DictGet(effects.radii_m, "light_damage_m",
                FMul(effects.crater.diameter_m, Num(20))))

\* simulate_impact after the call of calculate_impact_effects, whose
\* exception leaves the handler
SimulateAfter(data, effects) ==
    IF effects.kind = "raise" THEN effects
    ELSE Return(SimulateWith(data, effects.value,
                    FDiv(effects.value.basic.energy_joules, F(4184, 6))))

simulate_impact(data) ==
    SimulateAfter(data,
        calculate_impact_effects(data.diameter, data.velocity, data.density,
                                 data.strength, Num(45)))

(***************************************************************************)
(* nasa_api.py: OrbitalMechanics.  M, e and tolerance are finite floats.   *)
(***************************************************************************)
kepler_equation(E, e, M) == FSub(FSub(E, FMul(e, MathSin(E))), M)

\* one pass through the body of the loop with the update made before the
\* residual test
NewtonUpdate_updatefirst(E, f, f_prime, tolerance) ==
    IF f_prime = Zero THEN Raise("ZeroDivisionError")
    ELSE IF FLt(FAbs(f), tolerance) THEN Return(FSub(E, FDiv(f, f_prime)))
    ELSE [kind |-> "continue", E |-> FSub(E, FDiv(f, f_prime))]

\* the end of one pass through the body of the for loop of
\* solve_kepler_equation with the estimate E and the values f and f_prime:
\* the break and the return E that follows it, the ZeroDivisionError of
\* f / f_prime, or the new estimate
NewtonUpdate(E, f, f_prime, tolerance) ==
    IF FLt(FAbs(f), tolerance) THEN Return(E)
    ELSE IF f_prime = Zero THEN Raise("ZeroDivisionError")
    ELSE [kind |-> "continue", E |-> FSub(E, FDiv(f, f_prime))]

\* one pass through the body of the for loop with the estimate E
NewtonStep(M, e, tolerance, E) ==
    NewtonUpdate(E, kepler_equation(E, e, M),
                 FSub(Num(1), FMul(e, MathCos(E))), tolerance)

\* n more passes through the loop of solve_kepler_equation from st, which is
\* the estimate [kind |-> "continue", E |-> ...] of a loop still running or
\* the outcome of a loop that has ended; the passes are split in two halves
RECURSIVE NewtonRun(_, _, _, _, _)
NewtonRun(M, e, tolerance, st, n) ==
    IF st.kind # "continue" \/ n <= 0 THEN st
    ELSE IF n = 1 THEN NewtonStep(M, e, tolerance, st.E)
    ELSE NewtonRun(M, e, tolerance,
                   NewtonRun(M, e, tolerance, st, n \div 2), n - n \div 2)

\* the return E after the last pass of a loop that ended at st
LoopEnd(st) == IF st.kind = "continue" THEN Return(st.E) ELSE st

\* the for loop of solve_kepler_equation from the estimate E with left
\* iterations left, and the return that follows it
NewtonLoop(M, e, tolerance, E, left) ==
    LoopEnd(NewtonRun(M, e, tolerance, [kind |-> "continue", E |-> E], left))

\* the outcome of a whole call of solve_kepler_equation
solve_kepler_equation(M, e, tolerance, max_iterations) ==
    IF FLt(e, F(1000, -9)) THEN Return(M)
    ELSE NewtonLoop(M, e, tolerance, M, max_iterations)

\* the entry of solve_kepler_equation without the circular-orbit shortcut
KeplerEnter_noshortcut(a) ==
    [pc |-> "loop", ret |-> Pending, frame |-> [E |-> a.M, iteration |-> 0]]

\* the entry of solve_kepler_equation with the arguments a: the shortcut, or
\* the seed E = M of the loop
KeplerEnter(a) ==
    IF FLt(a.e, F(1000, -9))
    THEN [pc |-> "done", ret |-> Return(a.M), frame |-> None]
    ELSE [pc |-> "loop", ret |-> Pending, frame |-> [E |-> a.M, iteration |-> 0]]

\* the loop of solve_kepler_equation after the pass s from the local
\* variables fr: the loop left with a return or an error, or E updated
KeplerPass(fr, s) ==
    IF s.kind = "continue"
    THEN [pc |-> "loop", ret |-> Pending,
          frame |-> [E |-> s.E, iteration |-> fr.iteration + 1]]
    ELSE [pc |-> "done", ret |-> s, frame |-> fr]

\* one step of the loop of solve_kepler_equation from the local variables
\* fr: the end of range(max_iterations) or the break, followed by return E;
\* or one update of E
KeplerLoop(a, fr) ==
    IF fr.iteration >= a.max_iterations
    THEN [pc |-> "done", ret |-> Return(fr.E), frame |-> fr]
    ELSE KeplerPass(fr, NewtonStep(a.M, a.e, a.tolerance, fr.E))

\* nu = 2 * atan2(sqrt(1 + e) * sin(E/2), sqrt(1 - e) * cos(E/2)), for
\* -1 <= e <= 1
TrueAnomaly(E, e) ==
    LET half == FDiv(E, Num(2))
    IN FMul(Num(2),
            MathAtan2(FMul(MathSqrt(FAdd(Num(1), e)), MathSin(half)),
                      FMul(MathSqrt(FSub(Num(1), e)), MathCos(half))))

\* the three rotations of calculate_position and calculate_velocity applied
\* to the vector (x_orb, y_orb, 0) of the orbital plane
Rotate(x_orb, y_orb, i, omega, w) ==
    LET x1 == FSub(FMul(x_orb, MathCos(w)), FMul(y_orb, MathSin(w)))
        y1 == FAdd(FMul(x_orb, MathSin(w)), FMul(y_orb, MathCos(w)))
        z1 == Zero
        x2 == x1
        y2 == FSub(FMul(y1, MathCos(i)), FMul(z1, MathSin(i)))
        z2 == FAdd(FMul(y1, MathSin(i)), FMul(z1, MathCos(i)))
    IN <<FSub(FMul(x2, MathCos(omega)), FMul(y2, MathSin(omega))),
         FAdd(FMul(x2, MathSin(omega)), FMul(y2, MathCos(omega))),
         z2>>

\* calculate_position once nu is known: r = a * (1 - e**2) / (1 + e * cos(nu)),
\* the position in the orbital plane and its rotations
PositionAtAnomaly(a, e, i, omega, w, nu) ==
    LET den == FAdd(Num(1), FMul(e, MathCos(nu)))
        r == FDiv(FMul(a, FSub(Num(1), FMul(e, e))), den)
    IN IF den = Zero THEN Raise("ZeroDivisionError")
       ELSE Return(Rotate(FMul(r, MathCos(nu)), FMul(r, MathSin(nu)),
                          i, omega, w))

\* calculate_position after E = solve_kepler_equation(M, e), whose outcome
\* is solved
PositionAtSolved(a, e, i, omega, w, solved) ==
    IF solved.kind = "raise" THEN solved
    ELSE IF FLt(FAdd(Num(1), e), Zero) \/ FLt(FSub(Num(1), e), Zero)
    THEN Raise("ValueError")
    ELSE PositionAtAnomaly(a, e, i, omega, w, TrueAnomaly(solved.value, e))

\* the outcome of calculate_position: (x, y, z), the error of the solver, the
\* ValueError of math.sqrt or the ZeroDivisionError of the division by
\* 1 + e * cos(nu)
calculate_position(a, e, i, omega, w, M, mu) ==
    PositionAtSolved(a, e, i, omega, w,
                     solve_kepler_equation(M, e, F(1000, -9), 100))

\* calculate_velocity once nu is known: r, the vis-viva speed v, the velocity
\* in the orbital plane and its rotations
VelocityAtAnomaly(a, e, i, omega, w, nu, mu) ==
    LET den == FAdd(Num(1), FMul(e, MathCos(nu)))
        r == FDiv(FMul(a, FSub(Num(1), FMul(e, e))), den)
        vis == FMul(mu, FSub(FDiv(Num(2), r), FDiv(Num(1), a)))
        v == MathSqrt(vis)
    IN IF den = Zero THEN Raise("ZeroDivisionError")
       ELSE IF r = Zero \/ a = Zero THEN Raise("ZeroDivisionError")
       ELSE IF FLt(vis, Zero) THEN Raise("ValueError")
       ELSE Return(Rotate(FMul(FNeg(v), MathSin(nu)),
                          FMul(v, FAdd(e, MathCos(nu))), i, omega, w))

\* calculate_velocity after E = solve_kepler_equation(M, e), whose outcome
\* is solved
VelocityAtSolved(a, e, i, omega, w, solved, mu) ==
    IF solved.kind = "raise" THEN solved
    ELSE IF FLt(FAdd(Num(1), e), Zero) \/ FLt(FSub(Num(1), e), Zero)
    THEN Raise("ValueError")
    ELSE VelocityAtAnomaly(a, e, i, omega, w,
                           TrueAnomaly(solved.value, e), mu)

\* the outcome of calculate_velocity: (vx, vy, vz), or the error of the
\* solver, of math.sqrt or of a division by zero (by 1 + e * cos(nu), r or a)
calculate_velocity(a, e, i, omega, w, M, mu) ==
    VelocityAtSolved(a, e, i, omega, w,
                     solve_kepler_equation(M, e, F(1000, -9), 100), mu)

\* return pos + vel, after the two calls: the first error raised, or the
\* tuple of six floats
PosPlusVel(pos, vel) ==
    IF pos.kind = "raise" THEN pos
    ELSE IF vel.kind = "raise" THEN vel
    ELSE Return(pos.value \o vel.value)

\* the outcome of propagate_orbit: pos + vel, a tuple of six floats, or the
\* error of mu / a**3, of math.sqrt or of the two calls
propagate_orbit(a, e, i, omega, w, M0, time_delta, mu) ==
    IF a = Zero THEN Raise("ZeroDivisionError")
    ELSE IF FLt(a, Zero) THEN Raise("ValueError")
    ELSE LET n == MathSqrt(FDiv(mu, FMul(FMul(a, a), a)))
             M == FAdd(M0, FMul(n, time_delta))
         IN PosPlusVel(calculate_position(a, e, i, omega, w, M, mu),
                       calculate_velocity(a, e, i, omega, w, M, mu))

\* the default of the parameter mu
MuSun == F(1327, 8)

(***************************************************************************)
(* app.py: simulate_orbit.  The arguments are the fields of the request    *)
(* after their defaults; time_steps is an integer.  An exception leaves    *)
(* the handler and no trajectory is returned.                              *)
(***************************************************************************)
\* one entry of the trajectory
TrajectoryPoint(time_delta, pos_vel) ==
    [time |-> time_delta,
     position |-> [x |-> pos_vel[1], y |-> pos_vel[2], z |-> pos_vel[3]],
     velocity |-> [x |-> pos_vel[4], y |-> pos_vel[5], z |-> pos_vel[6]]]

\* the entry of simulate_orbit: trajectory = []
OrbitEnter(a) ==
    [pc |-> "loop", ret |-> Pending, frame |-> [trajectory |-> <<>>, step |-> 0]]

\* the end of one pass of the for loop of simulate_orbit: the error of
\* propagate_orbit leaves the handler, its result is appended
OrbitAppend(fr, time_delta, pos_vel) ==
    IF pos_vel.kind = "raise"
    THEN [pc |-> "done", frame |-> fr, ret |-> pos_vel]
    ELSE [pc |-> "loop", ret |-> Pending,
          frame |-> [trajectory |->
                         Append(fr.trajectory,
                                TrajectoryPoint(time_delta, pos_vel.value)),
                     step |-> fr.step + 1]]

\* one pass of the for loop with time_delta computed
OrbitSample(a, fr, time_delta) ==
    LET el == a.orbital_elements
    IN OrbitAppend(fr, time_delta,
           propagate_orbit(el.semi_major_axis, el.eccentricity,
               el.inclination, el.longitude_of_ascending_node,
               el.argument_of_periapsis, el.mean_anomaly, time_delta, MuSun))

\* one step of the for loop of simulate_orbit from the local variables fr:
\* the end of range(time_steps) followed by the return, or one entry
\* appended; step / (time_steps - 1) raises ZeroDivisionError
OrbitLoop(a, fr) ==
    IF fr.step >= a.time_steps
    THEN [pc |-> "done", frame |-> fr,
          ret |-> Return([trajectory |-> fr.trajectory,
                          orbital_elements |-> a.orbital_elements])]
    ELSE IF a.time_steps - 1 = 0
    THEN [pc |-> "done", frame |-> fr, ret |-> Raise("ZeroDivisionError")]
    ELSE OrbitSample(a, fr, FMul(FDiv(Num(fr.step), Num(a.time_steps - 1)),
                                 a.time_span))

(***************************************************************************)
(* The calls.  The bounds of the argument sets:                            *)
(***************************************************************************)
MaxShift == 8

MaxLead == 50

MaxVelocityKms == 30

MaxStrengthExp == 10

MaxEnergyExp == 20

MaxAltitudeKm == 20

MaxYieldExp == 5

MaxCraterKm == 5

MaxScaledDistance == 700

MaxIterations == 6

MaxTntExp == 6

MaxRadiusKm == 2

MaxDensityExp == 2

MaxTargetExp == 2

MaxTimeSteps == 4

MaxDays == 3

ShiftValues == (-2..MaxShift) \cup {100000, EARTH_RADIUS_M}

LeadTimeValues == (-2..MaxLead) \cup {86400, SECONDS_PER_YEAR}

DeltaVValues ==
    {IntToDbl(n) : n \in -1..3} \cup {DblDivInt(1, 10), DblDivInt(1, 49)}

\* time_before_impact of a request, in days
DaysValues == (-2..MaxDays) \cup {30, 365}

\* delta_v of a request
RequestDeltaVValues ==
    DeltaVValues \cup {DblDivInt(EARTH_RADIUS_M, 86400), DblDivInt(EARTH_RADIUS_M, 86399)}

\* the requests of /api/simulate
SimulateRequests ==
    [op : {"simulate_impact"},
     diameter : {Zero, Num(100), Num(370), Num(1000)},
     velocity : {Zero, Num(11000), Num(17000)},
     density : {Num(2600), Num(3000)},
     strength : {Zero, F(1000, 3), F(1000, 6)},
     impact_region : {"land", "ocean", "urban"},
     population_density : {Zero, Num(100)}]

VelocityValues == {Norm(c, 3) : c \in 0..MaxVelocityKms}

StrengthValues ==
    {Norm(c, k) : c \in {-1, 0, 1, 2, 5}, k \in 0..MaxStrengthExp}
        \cup {F(2450, 5), F(2451, 5)}

EnergyValues == {Norm(c, k) : c \in -3..9, k \in {0, MaxEnergyExp - 4, MaxEnergyExp}}

AltitudeValues ==
    {None, Num(9999), Num(10001)} \cup {Norm(c, 3) : c \in 0..MaxAltitudeKm}

ThresholdValues == {Num(10000), Num(5000), Zero}

YieldValues == {Norm(c, k - 3) : c \in 0..9, k \in 0..MaxYieldExp}

\* the target overpressures: the psi values of the table, values between
\* them, above the largest and below the smallest, down to 10^-MaxTargetExp
TargetPsiValues ==
    {Num(100), Num(50), Num(20), Num(10), Num(5), Num(2), Num(1),
     F(5000, -4), F(1000, -4)}
    \cup {Num(1000), Num(150), Num(75), Num(15), Num(3), F(3000, -4),
          F(1001, -4), Zero, FNeg(Num(1))}
    \cup {F(9999, -4 - k) : k \in 1 .. MaxTargetExp}

ScaledDistanceValues ==
    {Norm(c, 0) : c \in -1..MaxScaledDistance}
        \cup {F(9999, -3), F(5999, -1), F(1000, 6), Inf}

CraterDiameterValues ==
    {Norm(500 * c, 0) : c \in -1..(2 * MaxCraterKm)}
        \cup {Num(1), Num(1999), Num(2001)}

MeanAnomalyValues ==
    {Zero, F(5000, -4), Num(1), F(1047, -3), Num(2), Num(3), F(3142, -3),
     Num(5), Num(-1), Num(10), Num(100)}

EccentricityValues ==
    {F(-5000, -4), Zero, F(5000, -10), F(9999, -10), F(1000, -9), F(1000, -6),
     F(1000, -4), F(5000, -4), F(9000, -4), F(9999, -4), Num(1), Num(2)}

ToleranceValues == {F(1000, -9), F(1000, -5), Zero}

ImpactDiameters ==
    {Zero, Num(10), Num(50), Num(100), Num(370), Num(900), Num(1000)}

ImpactVelocities == {Zero, Num(11000), Num(17000), Num(20000)}

ImpactDensities == {Num(1200), Num(2600), Num(3000)}

ImpactStrengths ==
    {FNeg(Num(1000000)), Zero, F(1000, 2), F(1000, 3), F(1000, 5), F(1000, 6)}

OrbitalElementsValues ==
    [semi_major_axis : {F(1500, 5), F(2279, 5)},
     eccentricity : {Zero, F(1000, -4), F(5000, -4), Num(2)},
     inclination : {Zero, F(5000, -4)},
     longitude_of_ascending_node : {Zero, Num(1)},
     argument_of_periapsis : {Zero, Num(2)},
     mean_anomaly : {Zero, Num(1)}]

TimeSpanValues == {F(3154, 4), F(1000, 4)}

\* the TNT equivalents, in tons, from nothing to 10^MaxTntExp
TntValues == {Zero, F(-1000, -3)} \cup {F(m, k) : m \in {1000, 8000}, k \in -3 .. MaxTntExp - 3}

\* the radii, in metres, up to MaxRadiusKm kilometres
RadiusValues ==
    {Zero, F(-1000, -3), F(1000, -3), F(1500, -1)}
    \cup {F(m, 0) : m \in {k * 500 : k \in 2 .. 2 * MaxRadiusKm}}

\* people per square kilometre, up to 10^MaxDensityExp
DensityValues ==
    {Zero, F(-1000, -3), F(2500, -3)} \cup {F(1000, k - 3) : k \in 0 .. MaxDensityExp}

RegionValues == {"land", "ocean", "urban", "rural", "Urban", ""}

\* the factors c of a scaling that the floats carry out exactly
ScaleFactors == {10, 100}

EstimatorCalls ==
    [op : {"calculate_indirect_effects"}, tnt_equivalent : TntValues,
     impact_region : RegionValues]
    \cup [op : {"calculate_casualties"}, blast_radius : RadiusValues,
          population_density : DensityValues, impact_region : RegionValues]
    \cup [op : {"calculate_infrastructure_damage"},
          blast_radius : {Zero, F(1000, 0), F(1500, 0)},
          thermal_radius : {Zero, F(2500, 0), F(3750, 0)},
          seismic_radius : {Zero, F(1000, 1)}]

OrbitCalls ==
    [op : {"simulate_orbit"}, orbital_elements : OrbitalElementsValues,
     time_steps : 0..MaxTimeSteps, time_span : TimeSpanValues]

KeplerCalls ==
    [op : {"solve_kepler_equation"}, M : MeanAnomalyValues,
     e : EccentricityValues, tolerance : ToleranceValues,
     max_iterations : 0..MaxIterations]

Calls ==
    KeplerCalls \cup OrbitCalls \cup EstimatorCalls
    \cup [op : {"energy_to_eq_magnitude"}, E_joules : EnergyValues]
    \cup [op : {"breakup_altitude_for_strength"}, v_ms : VelocityValues,
          strength_pa : StrengthValues]
    \cup [op : {"is_airburst"}, breakup_altitude_m : AltitudeValues,
          threshold_m : ThresholdValues]
    \cup [op : {"calculate_overpressure_radii"}, yield_megatons : YieldValues]
    \cup [op : {"radius_for_overpressure"}, target_psi : TargetPsiValues,
          yield_megatons : YieldValues]
    \cup [op : {"deflect_asteroid"}, delta_v : RequestDeltaVValues,
          time_before_impact : DaysValues]
    \cup SimulateRequests
    \cup [op : {"crater_depth_m"}, crater_diameter_m : CraterDiameterValues]
    \cup [op : {"overpressure_from_scaled_distance"}, Z : ScaledDistanceValues]
    \cup [op : {"deflection_dv_for_shift", "test_deflection_roundtrip"},
          shift_m : ShiftValues, lead_time_seconds : LeadTimeValues]
    \cup [op : {"shift_from_dv"}, delta_v_ms : DeltaVValues,
          lead_time_seconds : LeadTimeValues]
    \cup [op : {"calculate_impact_effects"}, diameter_m : ImpactDiameters,
          velocity_m_s : ImpactVelocities, density_kg_m3 : ImpactDensities,
          strength_pa : ImpactStrengths, impact_angle_deg : {Num(45)}]

Init ==
    /\ pc = "call"
    /\ \E c \in Calls : op = c.op /\ args = c
    /\ ret = Pending
    /\ frame = None
    /\ OVERPRESSURE_TABLE = OverpressureTableInit
    /\ peer = NoPeer
    /\ adaptive_difficulty = AdaptiveDifficulty

\* a return that drops the first bin of the table
Finish_pop(outcome) ==
    /\ pc' = "done"
    /\ ret' = outcome
    /\ OVERPRESSURE_TABLE' = Tail(OVERPRESSURE_TABLE)
    /\ UNCHANGED <<op, args, frame, peer, adaptive_difficulty>>

Finish(outcome) ==
    /\ pc' = "done"
    /\ ret' = outcome
    /\ UNCHANGED <<op, args, frame, OVERPRESSURE_TABLE, peer, adaptive_difficulty>>

\* the running call moves to the position, outcome and locals of n
Move(n) ==
    /\ pc' = n.pc
    /\ ret' = n.ret
    /\ frame' = n.frame
    /\ UNCHANGED <<op, args, OVERPRESSURE_TABLE, peer, adaptive_difficulty>>

Call_solve_kepler_equation ==
    /\ pc = "call" /\ op = "solve_kepler_equation"
    /\ Move(KeplerEnter(args))

Loop_solve_kepler_equation ==
    /\ pc = "loop" /\ op = "solve_kepler_equation"
    /\ Move(KeplerLoop(args, frame))

Call_simulate_orbit ==
    /\ pc = "call" /\ op = "simulate_orbit"
    /\ Move(OrbitEnter(args))

Loop_simulate_orbit ==
    /\ pc = "loop" /\ op = "simulate_orbit"
    /\ Move(OrbitLoop(args, frame))

Do_energy_to_eq_magnitude ==
    /\ pc = "call" /\ op = "energy_to_eq_magnitude"
    /\ Finish(Return(energy_to_eq_magnitude(args.E_joules)))

Do_breakup_altitude_for_strength ==
    /\ pc = "call" /\ op = "breakup_altitude_for_strength"
    /\ Finish(breakup_altitude_for_strength(args.v_ms, args.strength_pa,
                                            RHO_AIR_SEA, ATM_SCALE_H))

Do_is_airburst ==
    /\ pc = "call" /\ op = "is_airburst"
    /\ Finish(Return(is_airburst(args.breakup_altitude_m, args.threshold_m)))

Do_calculate_overpressure_radii ==
    /\ pc = "call" /\ op = "calculate_overpressure_radii"
    /\ Finish(Return(calculate_overpressure_radii(args.yield_megatons)))

Do_overpressure_from_scaled_distance ==
    /\ pc = "call" /\ op = "overpressure_from_scaled_distance"
    /\ Finish(Return(overpressure_from_scaled_distance(args.Z)))

Do_crater_depth_m ==
    /\ pc = "call" /\ op = "crater_depth_m"
    /\ Finish(Return(crater_depth_m(args.crater_diameter_m)))

Do_deflection_dv_for_shift ==
    /\ pc = "call" /\ op = "deflection_dv_for_shift"
    /\ Finish(deflection_dv_for_shift(args.shift_m, args.lead_time_seconds))

Do_shift_from_dv ==
    /\ pc = "call" /\ op = "shift_from_dv"
    /\ Finish(Return(shift_from_dv(args.delta_v_ms, args.lead_time_seconds)))

\* dv = deflection_dv_for_shift(shift, lead); shift_from_dv(dv, lead)
test_deflection_roundtrip(shift_original, lead_time) ==
    LET dv == deflection_dv_for_shift(shift_original, lead_time)
    IN IF dv.kind = "raise" THEN dv
       ELSE Return(shift_from_dv(dv.value, lead_time))

Do_test_deflection_roundtrip ==
    /\ pc = "call" /\ op = "test_deflection_roundtrip"
    /\ Finish(test_deflection_roundtrip(args.shift_m, args.lead_time_seconds))

Do_calculate_impact_effects ==
    /\ pc = "call" /\ op = "calculate_impact_effects"
    /\ Finish(calculate_impact_effects(args.diameter_m, args.velocity_m_s,
                  args.density_kg_m3, args.strength_pa, args.impact_angle_deg))

Do_calculate_indirect_effects ==
    /\ pc = "call" /\ op = "calculate_indirect_effects"
    /\ Finish(Return(calculate_indirect_effects(args.tnt_equivalent,
                                                args.impact_region)))

Do_calculate_casualties ==
    /\ pc = "call" /\ op = "calculate_casualties"
    /\ Finish(Return(calculate_casualties(args.blast_radius,
                         args.population_density, args.impact_region)))

Do_calculate_infrastructure_damage ==
    /\ pc = "call" /\ op = "calculate_infrastructure_damage"
    /\ Finish(Return(calculate_infrastructure_damage(args.blast_radius,
                         args.thermal_radius, args.seismic_radius)))

Do_radius_for_overpressure ==
    /\ pc = "call" /\ op = "radius_for_overpressure"
    /\ Finish(Return(radius_for_overpressure(args.target_psi,
                                             args.yield_megatons)))

Call_deflect_asteroid ==
    /\ pc = "call" /\ op = "deflect_asteroid"
    /\ Move(DeflectEnter(args))

Respond_deflect_asteroid ==
    /\ pc = "required_dv" /\ op = "deflect_asteroid"
    /\ Move(DeflectRespond(args, frame))

Do_simulate_impact ==
    /\ pc = "call" /\ op = "simulate_impact"
    /\ Finish(simulate_impact(args))

Next ==
    \/ Do_energy_to_eq_magnitude
    \/ Do_breakup_altitude_for_strength
    \/ Do_is_airburst
    \/ Do_calculate_overpressure_radii
    \/ Do_overpressure_from_scaled_distance
    \/ Do_crater_depth_m
    \/ Do_deflection_dv_for_shift
    \/ Do_shift_from_dv
    \/ Do_test_deflection_roundtrip
    \/ Do_calculate_impact_effects
    \/ Call_solve_kepler_equation
    \/ Loop_solve_kepler_equation
    \/ Call_simulate_orbit
    \/ Loop_simulate_orbit
    \/ Do_calculate_indirect_effects
    \/ Do_calculate_casualties
    \/ Do_calculate_infrastructure_damage
    \/ Do_radius_for_overpressure
    \/ Call_deflect_asteroid
    \/ Respond_deflect_asteroid
    \/ Do_simulate_impact

Spec == Init /\ [][Next]_vars

(***************************************************************************)
(* Two concurrent calls of the core operations.  Each call has its own     *)
(* arguments and local variables; OVERPRESSURE_TABLE is the one module     *)
(* global that a call reads.                                               *)
(***************************************************************************)
ConcCalls ==
    [op : {"calculate_impact_effects"}, diameter_m : {Num(50), Num(1000)},
     velocity_m_s : {Num(17000)}, density_kg_m3 : {Num(3000)},
     strength_pa : {F(1000, 3), F(1000, 6)}, impact_angle_deg : {Num(45)}]
    \cup [op : {"deflection_dv_for_shift"}, shift_m : {1, EARTH_RADIUS_M},
          lead_time_seconds : {0, 49}]
    \cup [op : {"shift_from_dv"}, delta_v_ms : {DblDivInt(1, 49)},
          lead_time_seconds : {49, 86400}]
    \cup [op : {"solve_kepler_equation"}, M : {Num(1), Num(3)},
          e : {F(5000, -4), F(9000, -4), Num(2)},
          tolerance : {F(1000, -9), Zero}, max_iterations : {2, MaxIterations}]
    \cup [op : {"simulate_orbit"},
          orbital_elements :
              [semi_major_axis : {F(1500, 5)}, eccentricity : {F(1000, -4)},
               inclination : {F(5000, -4)},
               longitude_of_ascending_node : {Num(1)},
               argument_of_periapsis : {Num(2)}, mean_anomaly : {Zero, Num(1)}],
          time_steps : {1, 3}, time_span : {F(3154, 4)}]

\* the call of a with nothing done yet
Thread(a) == [pc |-> "call", op |-> a.op, args |-> a, ret |-> Pending, frame |-> None]

\* a whole call, in one step, with the outcome o
Whole(o) == [pc |-> "done", ret |-> o, frame |-> None]

\* the call t after a step that ends at n: its new position, outcome and locals
Advance(t, n) == [t EXCEPT !.pc = n.pc, !.ret = n.ret, !.frame = n.frame]

\* the next step of the call t: its new position, outcome and locals
ThreadStep(t) ==
    CASE t.op = "solve_kepler_equation" ->
             IF t.pc = "call" THEN KeplerEnter(t.args)
             ELSE KeplerLoop(t.args, t.frame)
      [] t.op = "simulate_orbit" ->
             IF t.pc = "call" THEN OrbitEnter(t.args)
             ELSE OrbitLoop(t.args, t.frame)
      [] t.op = "calculate_impact_effects" ->
             Whole(calculate_impact_effects(t.args.diameter_m,
                       t.args.velocity_m_s, t.args.density_kg_m3,
                       t.args.strength_pa, t.args.impact_angle_deg))
      [] t.op = "deflection_dv_for_shift" ->
             Whole(deflection_dv_for_shift(t.args.shift_m,
                                           t.args.lead_time_seconds))
      [] t.op = "shift_from_dv" ->
             Whole(Return(shift_from_dv(t.args.delta_v_ms,
                                        t.args.lead_time_seconds)))

\* a second call whose estimate E of solve_kepler_equation is the one of the
\* first call, as a module global would be
Peer_step_shared ==
    /\ peer.pc # "done"
    /\ IF peer.op = "solve_kepler_equation" /\ peer.pc = "loop"
            /\ op = "solve_kepler_equation" /\ pc = "loop"
       THEN LET n == KeplerLoop(peer.args, [peer.frame EXCEPT !.E = frame.E])
            IN /\ peer' = [peer EXCEPT !.pc = n.pc, !.ret = n.ret,
                                       !.frame = n.frame]
               /\ frame' = [frame EXCEPT !.E = n.frame.E]
       ELSE /\ peer' = Advance(peer, ThreadStep(peer))
            /\ UNCHANGED frame
    /\ UNCHANGED <<pc, op, args, ret, OVERPRESSURE_TABLE, adaptive_difficulty>>

\* a step of the second call
Peer_step ==
    /\ peer.pc # "done"
    /\ peer' = Advance(peer, ThreadStep(peer))
    /\ UNCHANGED <<pc, op, args, ret, frame, OVERPRESSURE_TABLE, adaptive_difficulty>>

InitConc ==
    /\ pc = "call"
    /\ \E c \in ConcCalls : op = c.op /\ args = c
    /\ ret = Pending
    /\ frame = None
    /\ OVERPRESSURE_TABLE = OverpressureTableInit
    /\ \E c \in ConcCalls : peer = Thread(c)
    /\ adaptive_difficulty = AdaptiveDifficulty

NextConc ==
    \/ Do_calculate_impact_effects
    \/ Do_deflection_dv_for_shift
    \/ Do_shift_from_dv
    \/ Call_solve_kepler_equation
    \/ Loop_solve_kepler_equation
    \/ Call_simulate_orbit
    \/ Loop_simulate_orbit
    \/ Peer_step

ConcSpec == InitConc /\ [][NextConc]_vars

(***************************************************************************)
(* The calls of update_performance that the /api/ml/adaptive-difficulty    *)
(* handler makes on the global object, one per request.                    *)
(***************************************************************************)
MaxUpdates == 14

\* the performances of the requests: a strong game and a weak one
PerformanceValues ==
    {[score |-> Num(150000), time_taken |-> Num(20),
      deflection_accuracy |-> F(9000, -4)],
     [score |-> Num(10000), time_taken |-> Num(60),
      deflection_accuracy |-> F(3000, -4)]}

\* the number of calls of update_performance made on self
Updates(self) ==
    IF Len(self.player_performance) = 0 THEN 0
    ELSE self.player_performance[Len(self.player_performance)].timestamp

InitGame ==
    /\ pc = "done"
    /\ op = "update_adaptive_difficulty"
    /\ args = None
    /\ ret = Pending
    /\ frame = None
    /\ OVERPRESSURE_TABLE = OverpressureTableInit
    /\ peer = NoPeer
    /\ adaptive_difficulty = AdaptiveDifficulty

\* the answer of update_adaptive_difficulty after the update left self
DifficultyAnswer(self) ==
    Return([difficulty_level |-> get_difficulty_level(self),
            performance_window |-> Len(self.player_performance)])

\* one request to /api/ml/adaptive-difficulty
Do_update_adaptive_difficulty ==
    /\ Updates(adaptive_difficulty) < MaxUpdates
    /\ \E data \in PerformanceValues :
          /\ args' = data
          /\ adaptive_difficulty' =
                update_performance(adaptive_difficulty, data.score,
                    data.time_taken, data.deflection_accuracy,
                    Updates(adaptive_difficulty) + 1)
    /\ ret' = DifficultyAnswer(adaptive_difficulty')
    /\ UNCHANGED <<pc, op, frame, OVERPRESSURE_TABLE, peer>>

NextGame == Do_update_adaptive_difficulty

GameSpec == InitGame /\ [][NextGame]_vars

(***************************************************************************)
(* Repeated calls of get_scenario_parameters by one caller on the same     *)
(* base scenario, which is args.base_scenario; the object is one that a    *)
(* few games have left behind.                                             *)
(***************************************************************************)
MaxHistory == 4

MaxScenarioCalls == 2

\* the object after the performances of the sequence h
RECURSIVE Played(_)
Played(h) ==
    IF Len(h) = 0 THEN AdaptiveDifficulty
    ELSE update_performance(Played(SubSeq(h, 1, Len(h) - 1)),
             h[Len(h)].score, h[Len(h)].time_taken,
             h[Len(h)].deflection_accuracy, Len(h))

PlayedObjects ==
    {Played(h) : h \in UNION {[1..n -> PerformanceValues] : n \in 0..MaxHistory}}

\* base scenarios: two of a request, with the keys that
\* get_scenario_parameters reads, and STORY_SCENARIOS[0], which has an
\* asteroid_id and no asteroid
BaseScenarios ==
    {[id |-> "custom_1", asteroid |-> [diameter |-> Num(100)],
      time_to_impact |-> 30,
      success_criteria |-> [min_deflection_distance |-> Num(1000),
                            max_time_remaining |-> 30]],
     [id |-> "custom_2", asteroid |-> [diameter |-> Num(500)],
      time_to_impact |-> 60,
      success_criteria |-> [min_deflection_distance |-> Num(2000),
                            max_time_remaining |-> 60]],
     [id |-> "scenario_1", asteroid_id |-> "impactor-2025",
      time_to_impact |-> 30,
      success_criteria |-> [min_deflection_distance |-> Num(1000),
                            max_time_remaining |-> 30]]}

InitScenario ==
    /\ pc = "call"
    /\ op = "get_scenario_parameters"
    /\ \E b \in BaseScenarios : args = [base_scenario |-> b]
    /\ ret = Pending
    /\ frame = [calls |-> 0]
    /\ OVERPRESSURE_TABLE = OverpressureTableInit
    /\ peer = NoPeer
    /\ adaptive_difficulty \in PlayedObjects

\* one call of get_scenario_parameters on the caller's base scenario
Do_get_scenario_parameters ==
    /\ pc = "call" /\ op = "get_scenario_parameters"
    /\ frame.calls < MaxScenarioCalls
    /\ ret' = get_scenario_parameters(adaptive_difficulty,
                                      args.base_scenario).ret
    /\ args' = [args EXCEPT !.base_scenario =
                    get_scenario_parameters(adaptive_difficulty,
                                            args.base_scenario).base_scenario]
    /\ frame' = [calls |-> frame.calls + 1]
    /\ UNCHANGED <<pc, op, OVERPRESSURE_TABLE, peer, adaptive_difficulty>>

NextScenario == Do_get_scenario_parameters

ScenarioSpec == InitScenario /\ [][NextScenario]_vars

(***************************************************************************)
(* Properties                                                              *)
(***************************************************************************)
Done(o) == pc = "done" /\ op = o

\* a finite float: neither None, nor an infinity, nor a NaN
IsNumber(v) == ~IsNone(v) /\ ~IsInf(v)

\* C1: for every yield W > 0 the radii returned by
\* calculate_overpressure_radii(W) are strictly ordered:
\* R_100psi_m < R_20psi_m < R_5psi_m < R_1psi_m < R_0_5psi_m
C1_RadiiStrictlyOrdered ==
    (Done("calculate_overpressure_radii") /\ FGt(args.yield_megatons, Zero)) =>
        LET r == ret.value
        IN /\ FLt(r.R_100psi_m, r.R_20psi_m)
           /\ FLt(r.R_20psi_m, r.R_5psi_m)
           /\ FLt(r.R_5psi_m, r.R_1psi_m)
           /\ FLt(r.R_1psi_m, r.R_0_5psi_m)

\* the call of test_overpressure_radii has returned: W = 1.0 gives the bin
\* midpoints 5 and 450 themselves
C1_Witness ==
    /\ Done("calculate_overpressure_radii")
    /\ args.yield_megatons = Num(1)
    /\ ret.value.R_100psi_m = Num(5)
    /\ ret.value.R_0_5psi_m = Num(450)

PadLeft(b, n) == Zeros(n - Len(b)) \o b

\* 2 * |P - Q| <= lim, for natural numbers P and Q given by their bits (most
\* significant first) and a natural number lim < 2^30
BitsClose(P, Q, lim) ==
    LET L == 30 + (IF Len(P) > Len(Q) THEN Len(P) ELSE Len(Q))
        p == PadLeft(P, L)
        q == PadLeft(Q, L)
        ph == SubSeq(p, 1, L - 29)
        qh == SubSeq(q, 1, L - 29)
        pl == BitsInt(SubSeq(p, L - 28, L))
        ql == BitsInt(SubSeq(q, L - 28, L))
        far == 1073741823
        d == IF ph = qh THEN pl - ql
             ELSE IF ph = BitsInc(qh) THEN pl - ql + 536870912
             ELSE IF qh = BitsInc(ph) THEN pl - ql - 536870912
             ELSE far
    IN Abs(d) <= lim \div 2

\* the double q is the one nearest to n / d (d > 0): q has the sign of n and
\* |q * d - n| is at most half a unit in the last place of q times d, where
\* q * d is the exact product
IsNearestQuotient(q, n, d) ==
    IF n = 0 THEN q = DblZero
    ELSE /\ q.s = Sgn(n)
         /\ Len(q.b) = DBL_MANT_DIG
         /\ q.b[1] = 1
         /\ BitsClose(Reverse(MulBits(Reverse(q.b), d, 0)),
                      IntBits(Abs(n)) \o Zeros(DBL_MANT_DIG - 1 - q.x), d)

\* C2: deflection_dv_for_shift(shift, lead_time) raises ValueError for every
\* lead_time <= 0 and any shift (it returns no number, infinity or NaN), and
\* for every lead_time > 0 it returns shift / lead_time without raising
C2_LeadTimeDomainError ==
    Done("deflection_dv_for_shift") =>
        IF args.lead_time_seconds <= 0
        THEN ret = Raise("ValueError")
        ELSE /\ ret.kind = "return"
             /\ IsNearestQuotient(ret.value, args.shift_m, args.lead_time_seconds)

\* the calls of test_deflection_dv_invalid_lead_time (lead time 0) have raised
C2_Witness ==
    /\ Done("deflection_dv_for_shift")
    /\ args.lead_time_seconds = 0
    /\ args.shift_m > 0
    /\ ret.kind = "raise"

\* |x - n| <= n / 1000 up to one unit of 2^-k, for a double x >= 0 and an
\* integer n in 1..2^23, k being the scale that makes n * 2^k a 30-bit number
WithinPermille(x, n) ==
    LET k == 30 - Len(IntBits(n))
        t == n * Pow2(k)
    IN /\ x.s = 1
       /\ x.x + k + 1 <= 31
       /\ Abs(DblFloorScaled(x, k) - t) <= t \div 1000 - 1

\* C3 as stated: for every shift S > 0 and lead time T > 0 the round trip
\* shift_from_dv(deflection_dv_for_shift(S, T), T) equals S exactly
C3_RoundTripExact ==
    (Done("test_deflection_roundtrip") /\ args.shift_m > 0
        /\ args.lead_time_seconds > 0) =>
            ret = Return(IntToDbl(args.shift_m))

\* C3 as amended: for every shift S > 0 and lead time T > 0 the round trip
\* returns a float within 0.1% of S (the two roundings of the division and
\* of the multiplication can move it off S)
C3_RoundTripWithinTolerance ==
    (Done("test_deflection_roundtrip") /\ args.shift_m > 0
        /\ args.lead_time_seconds > 0) =>
            /\ ret.kind = "return"
            /\ WithinPermille(ret.value, args.shift_m)

\* a round trip that returned a float other than the shift it started from
C3_Witness ==
    /\ Done("test_deflection_roundtrip")
    /\ args.shift_m = 1
    /\ args.lead_time_seconds = 49
    /\ ret.kind = "return"
    /\ ret.value # IntToDbl(1)
    /\ WithinPermille(ret.value, 1)

\* C4: energy_to_eq_magnitude(E) returns None for every E <= 0 (not 0, not an
\* error) and a number for every E > 0, and calculate_impact_effects passes
\* that result through unchanged as basic.eq_magnitude
C4_MagnitudeNoneForNonPositiveEnergy ==
    /\ Done("energy_to_eq_magnitude") =>
          /\ ret.kind = "return"
          /\ FLe(args.E_joules, Zero) => IsNone(ret.value)
          /\ FGt(args.E_joules, Zero) => IsNumber(ret.value)
    /\ (Done("calculate_impact_effects") /\ ret.kind = "return") =>
          LET b == ret.value.basic
          IN /\ FLe(b.energy_joules, Zero) => IsNone(b.eq_magnitude)
             /\ FGt(b.energy_joules, Zero) =>
                   /\ IsNumber(b.eq_magnitude)
                   /\ b.eq_magnitude =
                         FDiv(FSub(MathLog10(b.energy_joules), F(4800, -3)),
                              F(1500, -3))

\* calculate_impact_effects has returned a result of zero energy, whose
\* magnitude is None
C4_Witness ==
    /\ Done("calculate_impact_effects")
    /\ ret.kind = "return"
    /\ ret.value.basic.energy_joules = Zero
    /\ IsNone(ret.value.basic.eq_magnitude)

\* C5: breakup_altitude_for_strength(v, S) returns None exactly when S <= 0;
\* for every S > 0 and v > 0 it returns a number z with 0 <= z <= 120000
C5_BreakupNoneOrInRange ==
    Done("breakup_altitude_for_strength") =>
        /\ FLe(args.strength_pa, Zero) => ret = Return(None)
        /\ FGt(args.strength_pa, Zero) => ret # Return(None)
        /\ (FGt(args.strength_pa, Zero) /\ FGt(args.v_ms, Zero)) =>
              /\ ret.kind = "return"
              /\ IsNumber(ret.value)
              /\ FLe(Zero, ret.value)
              /\ FLe(ret.value, Num(120000))

\* the required density of the call: 2 S / v^2, for v # 0
RhoNeeded == FDiv(FMul(Num(2), args.strength_pa), FMul(args.v_ms, args.v_ms))

\* a call whose computed altitude is above 120000 has returned 120000
C5_Witness ==
    /\ Done("breakup_altitude_for_strength")
    /\ FGt(args.strength_pa, Zero)
    /\ FGt(args.v_ms, Zero)
    /\ FGt(FMul(FNeg(ATM_SCALE_H), MathLog(FDiv(RhoNeeded, RHO_AIR_SEA))),
           Num(120000))
    /\ ret = Return(Num(120000))

\* the call has S > 0, v > 0 and a required air density above sea level's
GroundCase ==
    /\ FGt(args.strength_pa, Zero)
    /\ FGt(args.v_ms, Zero)
    /\ FGt(RhoNeeded, RHO_AIR_SEA)

\* C6: for every S > 0 and v > 0 whose required air density 2S/v^2 exceeds
\* 1.225, breakup_altitude_for_strength(v, S) returns exactly 0.0
C6_GroundBranchReturnsZero ==
    (Done("breakup_altitude_for_strength") /\ GroundCase) => ret = Return(Zero)

\* the call of test_breakup_altitude_ground_impact (v = 20000, S = 1e10) has
\* returned 0.0
C6_Witness ==
    /\ Done("breakup_altitude_for_strength")
    /\ args.v_ms = Num(20000)
    /\ args.strength_pa = F(1000, 7)
    /\ GroundCase
    /\ ret = Return(Zero)

\* the arguments of calculate_impact_effects are a ground case
ImpactGroundCase ==
    /\ FGt(args.strength_pa, Zero)
    /\ FGt(args.velocity_m_s, Zero)
    /\ FGt(FDiv(FMul(Num(2), args.strength_pa),
                FMul(args.velocity_m_s, args.velocity_m_s)), RHO_AIR_SEA)

\* C7 as stated: when the strength exceeds the sea-level threshold, the
\* breakup altitude is reported as None, not as zero
C7_GroundBranchReturnsNone ==
    /\ (Done("breakup_altitude_for_strength") /\ GroundCase) =>
           (ret.kind = "return" /\ IsNone(ret.value))
    /\ (Done("calculate_impact_effects") /\ ImpactGroundCase) =>
           (ret.kind = "return"
                /\ IsNone(ret.value.atmospheric.breakup_altitude_m))

\* C7 as amended: when the strength exceeds the sea-level threshold, the
\* breakup altitude is reported as the number 0.0, neither as an error nor
\* as None, and calculate_impact_effects reports breakup_altitude_m = 0.0
\* with is_airburst false
C7_GroundBranchIsNumberZero ==
    /\ (Done("breakup_altitude_for_strength") /\ GroundCase) =>
           /\ ret.kind = "return"
           /\ ~IsNone(ret.value)
           /\ ret.value = Zero
    /\ (Done("calculate_impact_effects") /\ ImpactGroundCase) =>
           /\ ret.kind = "return"
           /\ ~IsNone(ret.value.atmospheric.breakup_altitude_m)
           /\ ret.value.atmospheric.breakup_altitude_m = Zero
           /\ ret.value.atmospheric.is_airburst = FALSE

\* calculate_impact_effects has returned for a strength above the threshold
C7_Witness ==
    /\ Done("calculate_impact_effects")
    /\ ImpactGroundCase
    /\ ret.kind = "return"
    /\ ret.value.atmospheric.breakup_altitude_m = Zero

\* C8 as stated: with S <= 0, breakup_altitude_for_strength(v, S) and
\* calculate_impact_effects(..., strength_pa = S) raise an error and never
\* return a result
C8_NonPositiveStrengthRaises ==
    ((Done("breakup_altitude_for_strength") \/ Done("calculate_impact_effects"))
        /\ FLe(args.strength_pa, Zero)) => ret.kind = "raise"

\* C8 as amended: with S <= 0 neither function raises;
\* breakup_altitude_for_strength returns None, and calculate_impact_effects
\* returns a complete result with breakup_altitude_m = None, is_airburst
\* false and the crater of a ground impact
C8_NonPositiveStrengthReturnsNone ==
    /\ (Done("breakup_altitude_for_strength") /\ FLe(args.strength_pa, Zero)) =>
           ret = Return(None)
    /\ (Done("calculate_impact_effects") /\ FLe(args.strength_pa, Zero)) =>
           /\ ret.kind = "return"
           /\ IsNone(ret.value.atmospheric.breakup_altitude_m)
           /\ ret.value.atmospheric.is_airburst = FALSE
           /\ ret.value.crater.diameter_m =
                  crater_diameter_final_m(args.diameter_m, args.velocity_m_s,
                      args.density_kg_m3, RHO_TARGET_DEFAULT, G_EARTH, Num(1))
           /\ DOMAIN ret.value.radii_m =
                  {"crater_radius_m", "severe_damage_m", "moderate_damage_m",
                   "thermal_ignition_m", "light_damage_m", "R_100psi_m",
                   "R_20psi_m", "R_5psi_m", "R_1psi_m", "R_0_5psi_m"}

\* calculate_impact_effects has returned a result with a crater for a
\* negative strength
C8_Witness ==
    /\ Done("calculate_impact_effects")
    /\ FLt(args.strength_pa, Zero)
    /\ ret.kind = "return"
    /\ IsNone(ret.value.atmospheric.breakup_altitude_m)
    /\ FGt(ret.value.crater.diameter_m, Zero)

\* C9: for a fixed velocity v > 0 and strengths 0 < S1 <= S2,
\* breakup_altitude_for_strength(v, S2) <= breakup_altitude_for_strength(v, S1),
\* across the ground branch and the 120000 clamp as well
C9_BreakupMonotoneInStrength ==
    (Done("breakup_altitude_for_strength") /\ FGt(args.strength_pa, Zero)
        /\ FGt(args.v_ms, Zero)) =>
            \A S2 \in StrengthValues :
                FLe(args.strength_pa, S2) =>
                    LET r2 == breakup_altitude_for_strength(args.v_ms, S2,
                                  RHO_AIR_SEA, ATM_SCALE_H)
                    IN /\ ret.kind = "return" /\ r2.kind = "return"
                       /\ FLe(r2.value, ret.value)

\* a call that returned the clamp 120000 while, at the same velocity, a
\* higher strength gives an altitude strictly between the clamps and a still
\* higher one the ground branch
C9_Witness ==
    /\ Done("breakup_altitude_for_strength")
    /\ FGt(args.v_ms, Zero)
    /\ ret = Return(Num(120000))
    /\ \E S2, S3 \in StrengthValues :
          LET r2 == breakup_altitude_for_strength(args.v_ms, S2, RHO_AIR_SEA,
                                                  ATM_SCALE_H)
              r3 == breakup_altitude_for_strength(args.v_ms, S3, RHO_AIR_SEA,
                                                  ATM_SCALE_H)
          IN /\ FLt(args.strength_pa, S2) /\ FLt(S2, S3)
             /\ r2.kind = "return" /\ r3.kind = "return"
             /\ IsNumber(r2.value) /\ FLt(Zero, r2.value)
             /\ FLt(r2.value, Num(120000))
             /\ r3.value = Zero

\* C10: is_airburst(altitude, threshold) is true if and only if altitude is
\* not None and altitude > threshold (strictly); with the default threshold
\* an altitude of exactly 10000, of 0.0, or None gives false
C10_AirburstIffAboveThreshold ==
    Done("is_airburst") =>
        /\ ret.kind = "return"
        /\ ret.value = TRUE <=>
              (args.breakup_altitude_m # None
                  /\ FLt(args.threshold_m, args.breakup_altitude_m))
        /\ (args.threshold_m = Num(10000)
              /\ args.breakup_altitude_m \in {Num(10000), Zero, None}) =>
                  ret.value = FALSE

\* is_airburst has returned false for an altitude equal to the threshold
C10_Witness ==
    /\ Done("is_airburst")
    /\ args.threshold_m = Num(10000)
    /\ args.breakup_altitude_m = Num(10000)
    /\ ret = Return(FALSE)

\* the ten keys of the radii of a ground impact
OverpressureKeys == {"R_100psi_m", "R_20psi_m", "R_5psi_m", "R_1psi_m", "R_0_5psi_m"}

CraterKeys ==
    {"crater_radius_m", "severe_damage_m", "moderate_damage_m",
     "thermal_ignition_m", "light_damage_m"}

\* the Holsapple diameter of the arguments of calculate_impact_effects
ArgsHolsapple ==
    crater_diameter_final_m(args.diameter_m, args.velocity_m_s,
        args.density_kg_m3, RHO_TARGET_DEFAULT, G_EARTH, Num(1))

\* C11: in every result of calculate_impact_effects the crater diameter,
\* depth and radius are all exactly 0 when atmospheric.is_airburst is true;
\* when it is false the diameter is crater_diameter_final_m(...), the depth
\* crater_depth_m(diameter) and the radius diameter / 2
C11_CraterZeroOnAirburst ==
    (Done("calculate_impact_effects") /\ ret.kind = "return") =>
        LET c == ret.value.crater
        IN IF ret.value.atmospheric.is_airburst
           THEN c.diameter_m = Zero /\ c.depth_m = Zero /\ c.radius_m = Zero
           ELSE /\ c.diameter_m = ArgsHolsapple
                /\ c.depth_m = (IF FLt(c.diameter_m, Num(2000))
                                THEN FDiv(c.diameter_m, Num(5))
                                ELSE FDiv(c.diameter_m, Num(10)))
                /\ c.radius_m = FDiv(c.diameter_m, Num(2))

\* an airburst whose Holsapple diameter would be positive has a zero crater
C11_Witness ==
    /\ Done("calculate_impact_effects")
    /\ ret.kind = "return"
    /\ ret.value.atmospheric.is_airburst
    /\ FGt(ArgsHolsapple, Zero)
    /\ ret.value.crater = [diameter_m |-> Zero, depth_m |-> Zero, radius_m |-> Zero]

\* C12: the radii_m of calculate_impact_effects holds only the five
\* overpressure-table radii for an airburst; for a ground impact it holds the
\* five crater-multiplier entries merged with the five overpressure entries:
\* ten keys, the two key sets being disjoint, each entry the value of its
\* source, and a key present in both would get the overpressure value
C12_RadiiKeySets ==
    (Done("calculate_impact_effects") /\ ret.kind = "return") =>
        LET r == ret.value.radii_m
            over == calculate_overpressure_radii(ret.value.basic.energy_megatons)
            simple == simple_damage_radii_m(ret.value.crater.diameter_m)
        IN /\ DOMAIN over = OverpressureKeys
           /\ DOMAIN simple = CraterKeys
           /\ OverpressureKeys \cap CraterKeys = {}
           /\ IF ret.value.atmospheric.is_airburst
              THEN r = over
              ELSE /\ DOMAIN r = OverpressureKeys \cup CraterKeys
                   /\ Cardinality(DOMAIN r) = 10
                   /\ \A k \in OverpressureKeys : r[k] = over[k]
                   /\ \A k \in CraterKeys : r[k] = simple[k]
           /\ \A k \in CraterKeys :
                 LET both == DictMerge(simple, [j \in {k} |-> over.R_5psi_m])
                 IN DOMAIN both = CraterKeys /\ both[k] = over.R_5psi_m

\* a ground impact with a crater has returned its ten radii
C12_Witness ==
    /\ Done("calculate_impact_effects")
    /\ ret.kind = "return"
    /\ ~ret.value.atmospheric.is_airburst
    /\ FGt(ret.value.crater.diameter_m, Zero)
    /\ Cardinality(DOMAIN ret.value.radii_m) = 10
    /\ ret.value.radii_m.light_damage_m # ret.value.radii_m.R_5psi_m

\* C13: crater_depth_m(d) equals d/5 for every d < 2000 and d/10 for every
\* d >= 2000; the boundary 2000 belongs to the /10 branch:
\* crater_depth_m(1999) = 1999/5 = 399.8 and crater_depth_m(2000) = 200
C13_CraterDepthBoundary ==
    Done("crater_depth_m") =>
        LET d == args.crater_diameter_m
        IN /\ ret.kind = "return"
           /\ FLt(d, Num(2000)) => ret.value = FDiv(d, Num(5))
           /\ FGe(d, Num(2000)) => ret.value = FDiv(d, Num(10))
           /\ d = Num(1999) => ret.value = F(3998, -1)
           /\ d = Num(2000) => ret.value = Num(200)

\* crater_depth_m(2000) has returned 200
C13_Witness ==
    /\ Done("crater_depth_m")
    /\ args.crater_diameter_m = Num(2000)
    /\ ret = Return(Num(200))

\* the bins of the table that hold Z: Z_min <= Z < Z_max
BinsOf(Z) ==
    {i \in 1..Len(OVERPRESSURE_TABLE) :
        FLe(OVERPRESSURE_TABLE[i][1], Z) /\ FLt(Z, OVERPRESSURE_TABLE[i][2])}

\* C14: overpressure_from_scaled_distance(Z) returns the psi of the first bin
\* with Z_min <= Z < Z_max; every finite Z >= 0 lies in exactly one bin, and
\* a Z equal to the upper edge of a bin (10, 20, 30, 50, 80, 150, 300, 600)
\* gets the psi of the next bin, not of the bin it closes
C14_HalfOpenBins ==
    (Done("overpressure_from_scaled_distance") /\ FGe(args.Z, Zero)
        /\ ~IsInf(args.Z)) =>
            /\ ret.kind = "return"
            /\ Cardinality(BinsOf(args.Z)) = 1
            /\ \A i \in BinsOf(args.Z) : ret.value = OVERPRESSURE_TABLE[i][3]
            /\ \A i \in 1..(Len(OVERPRESSURE_TABLE) - 1) :
                  args.Z = OVERPRESSURE_TABLE[i][2] =>
                      /\ ret.value = OVERPRESSURE_TABLE[i + 1][3]
                      /\ ret.value # OVERPRESSURE_TABLE[i][3]

\* the call at Z = 600, the upper edge of the eighth bin, has returned the
\* 0.1 psi of the ninth
C14_Witness ==
    /\ Done("overpressure_from_scaled_distance")
    /\ args.Z = Num(600)
    /\ ret = Return(F(1000, -4))

\* nine contiguous bins from 0 to infinity, of strictly decreasing psi
TableWellFormed ==
    /\ Len(OVERPRESSURE_TABLE) = 9
    /\ OVERPRESSURE_TABLE[1][1] = Zero
    /\ IsInf(OVERPRESSURE_TABLE[9][2])
    /\ \A i \in 1..9 : FLt(OVERPRESSURE_TABLE[i][1], OVERPRESSURE_TABLE[i][2])
    /\ \A i \in 1..8 :
          /\ OVERPRESSURE_TABLE[i][2] = OVERPRESSURE_TABLE[i + 1][1]
          /\ FGt(OVERPRESSURE_TABLE[i][3], OVERPRESSURE_TABLE[i + 1][3])

\* C15: in every reachable state OVERPRESSURE_TABLE is an ordered set of nine
\* non-overlapping contiguous bins covering [0, infinity): the first Z_min is
\* 0, each Z_max is the next Z_min, the last Z_max is infinity and psi
\* strictly decreases; no operation ever changes the table
C15_TableImmutable ==
    /\ []TableWellFormed
    /\ [][OVERPRESSURE_TABLE' = OVERPRESSURE_TABLE]_vars

\* a call that read the table down to its last bin has returned and the
\* table is as it was
C15_Witness ==
    /\ Done("overpressure_from_scaled_distance")
    /\ FGt(args.Z, Num(600))
    /\ ret = Return(F(1000, -4))
    /\ TableWellFormed

\* C16 as stated: solve_kepler_equation terminates for every input after at
\* most max_iterations updates, and when the residual never drops below the
\* tolerance it returns the estimate reached after the last update and
\* raises no error
C16_ReturnsWithinCapNoError ==
    /\ op = "solve_kepler_equation" =>
          /\ pc = "loop" => frame.iteration <= args.max_iterations
          /\ pc \in {"call", "loop", "done"}
    /\ Done("solve_kepler_equation") =>
          /\ ret.kind = "return"
          /\ ~IsNone(frame) => ret.value = frame.E

\* what holds of the code: the call always ends, after at most
\* max_iterations updates; for an eccentricity below 1 it returns the last
\* estimate and raises nothing; the only error it ends with otherwise is the
\* ZeroDivisionError of f / f_prime
C16_TerminatesWithinCap ==
    /\ op = "solve_kepler_equation" =>
          /\ pc = "loop" => frame.iteration <= args.max_iterations
          /\ pc \in {"call", "loop", "done"}
    /\ Done("solve_kepler_equation") =>
          /\ ret = solve_kepler_equation(args.M, args.e, args.tolerance,
                                         args.max_iterations)
          /\ FLt(args.e, Num(1)) => ret.kind = "return"
          /\ (ret.kind = "return" /\ ~IsNone(frame)) => ret.value = frame.E
          /\ ret.kind = "raise" => ret = Raise("ZeroDivisionError")

\* a call whose residual never dropped below the tolerance has ended with
\* ZeroDivisionError, its derivative 1 - e * cos(E) being 0
C16_Witness ==
    /\ Done("solve_kepler_equation")
    /\ args.tolerance = F(1000, -9)
    /\ ret = Raise("ZeroDivisionError")
    /\ FGe(FAbs(kepler_equation(frame.E, args.e, args.M)), args.tolerance)
    /\ FMul(args.e, MathCos(frame.E)) = Num(1)

\* C17: for every M and every e < 1e-6, solve_kepler_equation(M, e) returns
\* exactly M and performs no Newton-Raphson iteration: the loop is never
\* entered, so f_prime is never computed or divided by
C17_CircularShortcut ==
    (op = "solve_kepler_equation" /\ FLt(args.e, F(1000, -9))) =>
        /\ pc # "loop"
        /\ IsNone(frame)
        /\ pc = "done" => ret = Return(args.M)

\* the call with e = 9.999e-7 and a tolerance it would not meet at once has
\* returned M
C17_Witness ==
    /\ Done("solve_kepler_equation")
    /\ args.e = F(9999, -10)
    /\ args.M = Num(2)
    /\ args.tolerance = Zero
    /\ args.max_iterations > 0
    /\ ret = Return(Num(2))
    /\ IsNone(frame)

\* the request of simulate_orbit describes an ellipse: 0 <= e < 1
EllipticRequest ==
    /\ FLe(Zero, args.orbital_elements.eccentricity)
    /\ FLt(args.orbital_elements.eccentricity, Num(1))

\* the trajectory t has n entries, entry k (from 0) being the propagation at
\* the time k / (n - 1) * time_span, and its times run from 0 to time_span
\* without decreasing
IsSampledTrajectory(t, n) ==
    LET el == args.orbital_elements
        at(k) == FMul(FDiv(Num(k), Num(n - 1)), args.time_span)
    IN /\ Len(t) = n
       /\ \A k \in 0..(n - 1) :
             LET pv == propagate_orbit(el.semi_major_axis, el.eccentricity,
                           el.inclination, el.longitude_of_ascending_node,
                           el.argument_of_periapsis, el.mean_anomaly,
                           at(k), MuSun)
             IN /\ t[k + 1].time = at(k)
                /\ pv.kind = "return"
                /\ t[k + 1].position =
                       [x |-> pv.value[1], y |-> pv.value[2], z |-> pv.value[3]]
                /\ t[k + 1].velocity =
                       [x |-> pv.value[4], y |-> pv.value[5], z |-> pv.value[6]]
       /\ \A k \in 1..(n - 1) : FLe(t[k].time, t[k + 1].time)
       /\ t[1].time = Zero
       /\ t[n].time = args.time_span

\* C19 as stated: for every positive integer time_steps, simulate_orbit
\* returns a trajectory of exactly time_steps entries, entry k being the
\* propagation at time k / (time_steps - 1) * time_span, with times
\* non-decreasing from 0 to time_span
C19_OneEntryPerTimeStep ==
    (Done("simulate_orbit") /\ EllipticRequest /\ args.time_steps >= 1) =>
        /\ ret.kind = "return"
        /\ IsSampledTrajectory(ret.value.trajectory, args.time_steps)

\* what holds of the code: the same for every time_steps >= 2, while
\* time_steps = 1 ends with the ZeroDivisionError of step / (time_steps - 1)
\* before any entry is appended
C19_OneEntryPerTimeStepFromTwo ==
    /\ (Done("simulate_orbit") /\ EllipticRequest /\ args.time_steps >= 2) =>
          /\ ret.kind = "return"
          /\ IsSampledTrajectory(ret.value.trajectory, args.time_steps)
    /\ (Done("simulate_orbit") /\ args.time_steps = 1) =>
          /\ ret = Raise("ZeroDivisionError")
          /\ frame.trajectory = <<>>

\* the request with time_steps = 1 has ended with ZeroDivisionError and no
\* trajectory
C19_Witness ==
    /\ Done("simulate_orbit")
    /\ EllipticRequest
    /\ args.time_steps = 1
    /\ ret = Raise("ZeroDivisionError")
    /\ frame.trajectory = <<>>

\* the outcome of the call t run alone, from its first step to its last
RECURSIVE RunAlone(_)
RunAlone(t) ==
    IF t.pc = "done" THEN t.ret
    ELSE RunAlone(Advance(t, ThreadStep(t)))

\* C18: the core operations read and write no shared mutable state: under
\* any interleaving of two concurrent calls each call returns what it
\* returns when run alone, and OVERPRESSURE_TABLE is in every state what it
\* was at import
C18_NoSharedMutableState ==
    /\ pc = "done" => ret = RunAlone(Thread(args))
    /\ peer.pc = "done" => peer.ret = RunAlone(Thread(peer.args))
    /\ OVERPRESSURE_TABLE = OverpressureTableInit

\* two calls of solve_kepler_equation with different arguments, each of
\* several updates, have both returned, with different results
C18_Witness ==
    /\ Done("solve_kepler_equation")
    /\ peer.pc = "done" /\ peer.op = "solve_kepler_equation"
    /\ args # peer.args
    /\ frame.iteration >= 2 /\ peer.frame.iteration >= 2
    /\ ret.kind = "return" /\ peer.ret.kind = "return"
    /\ ret # peer.ret

\* x scaled by a factor c of ScaleFactors
Scale(x, c) == FMul(x, Num(c))

\* every radius of the dictionary scaled is the radius of the dictionary unscaled, scaled
ScalesBy(scaled, unscaled, c) ==
    \A k \in DOMAIN unscaled : scaled[k] = Scale(unscaled[k], c)

\* the radii of the result of calculate_infrastructure_damage
DamageRadii(damage) == [k \in DOMAIN damage |-> damage[k].radius]

BinsAtMost(p) ==
    {i \in 1 .. Len(OVERPRESSURE_TABLE) : FLe(OVERPRESSURE_TABLE[i][3], p)}

\* the first bin, in table order, of a non-empty set of bins
FirstBin(bins) == CHOOSE i \in bins : \A j \in bins : i <= j

\* (Z_min + Z_max) / 2 of bin i
Midpoint(i) ==
    FDiv(FAdd(OVERPRESSURE_TABLE[i][1], OVERPRESSURE_TABLE[i][2]), Num(2))

\* W^(1/3) as radius_from_scaled_distance computes it
CubeRoot(W) == MathPow(W, F(3333, -4))

TablePsi == {OVERPRESSURE_TABLE[i][3] : i \in 1 .. Len(OVERPRESSURE_TABLE)}

\* the overpressure that the table gives at the radius R for the yield W
OverpressureAt(R, W) ==
    overpressure_from_scaled_distance(hopkinson_cranz_scaled_distance(R, W))

\* C22: for every target_psi that is a psi value of OVERPRESSURE_TABLE and
\* every W > 0, the radius R returned by radius_for_overpressure is finite
\* and the overpressure at R is the target
C22_RadiusGivesTarget ==
    (/\ Done("radius_for_overpressure")
     /\ args.target_psi \in TablePsi
     /\ FGt(args.yield_megatons, Zero)) =>
        /\ IsNumber(ret.value)
        /\ OverpressureAt(ret.value, args.yield_megatons) = args.target_psi

\* what holds of the code: the same for every psi value of the table but
\* the last, 0.1, whose bin (600, inf) has the midpoint inf: there the
\* radius is inf and the overpressure found at it is 0.0
C22_RadiusGivesTargetButLast ==
    (/\ Done("radius_for_overpressure")
     /\ args.target_psi \in TablePsi
     /\ FGt(args.yield_megatons, Zero)) =>
        IF args.target_psi = OVERPRESSURE_TABLE[Len(OVERPRESSURE_TABLE)][3]
        THEN /\ ret.value = Inf
             /\ OverpressureAt(ret.value, args.yield_megatons) = Zero
        ELSE /\ IsNumber(ret.value)
             /\ OverpressureAt(ret.value, args.yield_megatons) = args.target_psi

\* radius_for_overpressure(0.1, 1.0) has returned inf
C22_Witness ==
    /\ Done("radius_for_overpressure")
    /\ args.target_psi = F(1000, -4)
    /\ args.yield_megatons = Num(1)
    /\ ret.value = Inf
    /\ OverpressureAt(ret.value, args.yield_megatons) = Zero

\* the factor of the region on each output: 1 where nothing is adjusted
RegionFactor(key, impact_region) ==
    IF impact_region = "urban" /\ key = "economic_radius" THEN Num(2)
    ELSE IF impact_region = "urban" /\ key = "health_radius" THEN F(1500, -3)
    ELSE IF impact_region = "ocean" /\ key = "environmental_radius"
    THEN F(1500, -3)
    ELSE IF impact_region = "ocean" /\ key = "governance_radius"
    THEN F(8000, -4)
    ELSE Num(1)

\* the multiple of the blast radius of each output
BaseFactor ==
    [economic_radius |-> Num(5), environmental_radius |-> Num(8),
     health_radius |-> Num(3), governance_radius |-> Num(6)]

\* C23: calculate_indirect_effects returns economic = 5 x, environmental =
\* 8 x, health = 3 x, governance = 6 x the blast radius; 'urban' multiplies
\* economic by 2 and health by 1.5, 'ocean' environmental by 1.5 and
\* governance by 0.8, every other region adjusts nothing; the four outputs
\* are 0 when tnt_equivalent <= 0
C23_IndirectEffectConstants ==
    Done("calculate_indirect_effects") =>
        LET b == calculate_blast_radius(args.tnt_equivalent)
        IN /\ DOMAIN ret.value = DOMAIN BaseFactor
           /\ \A key \in DOMAIN BaseFactor :
                 /\ ret.value[key]
                      = FMul(FMul(b, BaseFactor[key]),
                             RegionFactor(key, args.impact_region))
                 /\ args.impact_region \notin {"urban", "ocean"} =>
                       ret.value[key] = FMul(b, BaseFactor[key])
                 /\ FLe(args.tnt_equivalent, Zero) => ret.value[key] = Zero

\* an urban call of 8000 tons has returned: the blast radius is positive
\* and economic and health carry the second factor
C23_Witness ==
    /\ Done("calculate_indirect_effects")
    /\ args.impact_region = "urban"
    /\ args.tnt_equivalent = F(8000, 0)
    /\ FGt(ret.value.health_radius, FMul(calculate_blast_radius(args.tnt_equivalent), Num(3)))
    /\ ret.value.economic_radius
         = FMul(FMul(calculate_blast_radius(args.tnt_equivalent), Num(5)), Num(2))

\* the positive targets below p
LowerTargets(p) == {q \in TargetPsiValues : FGt(q, Zero) /\ FLt(q, p)}

\* the smallest psi of the table
SmallestPsi == OVERPRESSURE_TABLE[Len(OVERPRESSURE_TABLE)][3]

\* C24: for a fixed yield W > 0, radius_for_overpressure(p, W) is
\* non-increasing in p over all p > 0: a lower target never gives a smaller
\* radius, targets below the smallest table value included
C24_RadiusNonIncreasing ==
    (/\ Done("radius_for_overpressure")
     /\ FGt(args.target_psi, Zero)
     /\ FGt(args.yield_megatons, Zero)) =>
        \A q \in LowerTargets(args.target_psi) :
            FGe(radius_for_overpressure(q, args.yield_megatons), ret.value)

\* what holds of the code: the same among the targets that some bin
\* answers, p >= 0.1; a target below 0.1 leaves the loop without a break and
\* gets Z = 5.0, the radius of the 100-psi bin, which is the smallest radius
\* of all
C24_RadiusNonIncreasingFromSmallestPsi ==
    (/\ Done("radius_for_overpressure")
     /\ FGt(args.target_psi, Zero)
     /\ FGt(args.yield_megatons, Zero)) =>
        \A q \in LowerTargets(args.target_psi) :
            IF FGe(q, SmallestPsi)
            THEN FGe(radius_for_overpressure(q, args.yield_megatons), ret.value)
            ELSE /\ radius_for_overpressure(q, args.yield_megatons)
                      = radius_from_scaled_distance(Num(5), args.yield_megatons)
                 /\ FLe(radius_for_overpressure(q, args.yield_megatons),
                        ret.value)

\* radius_for_overpressure(50, 1.0) has returned 15.0, more than the 5.0
\* that the lower target 0.09999 gets
C24_Witness ==
    /\ Done("radius_for_overpressure")
    /\ args.target_psi = Num(50)
    /\ args.yield_megatons = Num(1)
    /\ ret.value = Num(15)
    /\ F(9999, -5) \in LowerTargets(args.target_psi)
    /\ radius_for_overpressure(F(9999, -5), args.yield_megatons) = Num(5)

\* D_km of the call of crater_diameter_final_m that calculate_impact_effects
\* makes with the arguments of the state
RawCraterKm ==
    HolsappleKm(args.diameter_m, args.velocity_m_s, args.density_kg_m3,
                RHO_TARGET_DEFAULT, G_EARTH, Num(1))

\* calculate_impact_effects has returned the result of a ground impact
GroundImpactResult ==
    /\ Done("calculate_impact_effects")
    /\ ret.kind = "return"
    /\ ~ret.value.atmospheric.is_airburst

\* C25: in every ground-impact result of calculate_impact_effects the depth
\* is the diameter / 10 exactly when the factor 1.3 of complex craters was
\* applied to the diameter (D_km > 2), and the diameter / 5 exactly when it
\* was not, a raw diameter of exactly 2.0 km included
C25_CraterRegimesAgree ==
    GroundImpactResult =>
        LET crater == ret.value.crater
        IN IF FGt(RawCraterKm, Num(2))
           THEN /\ crater.diameter_m
                     = FMul(FMul(RawCraterKm, Num(1000)), F(1300, -3))
                /\ crater.depth_m = FDiv(crater.diameter_m, Num(10))
           ELSE /\ crater.diameter_m = FMul(RawCraterKm, Num(1000))
                /\ crater.depth_m = FDiv(crater.diameter_m, Num(5))

\* what holds of the code: the same for every raw diameter but 2.0 km; at
\* exactly 2.0 km the factor is not applied (D_km > 2.0 is false) and the
\* depth is the diameter / 10 (crater_diameter_m < 2000 is false)
C25_CraterRegimesAgreeOffBoundary ==
    GroundImpactResult =>
        LET crater == ret.value.crater
        IN IF FGt(RawCraterKm, Num(2))
           THEN /\ crater.diameter_m
                     = FMul(FMul(RawCraterKm, Num(1000)), F(1300, -3))
                /\ crater.depth_m = FDiv(crater.diameter_m, Num(10))
           ELSE /\ crater.diameter_m = FMul(RawCraterKm, Num(1000))
                /\ crater.depth_m
                     = IF RawCraterKm = Num(2) THEN FDiv(crater.diameter_m, Num(10))
                       ELSE FDiv(crater.diameter_m, Num(5))

\* a ground impact whose raw diameter is exactly 2.0 km has returned the
\* diameter 2000 without the factor and the depth 200
C25_Witness ==
    /\ GroundImpactResult
    /\ RawCraterKm = Num(2)
    /\ ret.value.crater.diameter_m = Num(2000)
    /\ ret.value.crater.depth_m = Num(200)

\* the residual test abs(f) < tolerance of solve_kepler_equation on the
\* estimate E of the call in progress
ResidualBelowTolerance(E) ==
    FLt(FAbs(kepler_equation(E, args.e, args.M)), args.tolerance)

\* a call of solve_kepler_equation that entered its loop
InKeplerLoop == op = "solve_kepler_equation" /\ ~FLt(args.e, F(1000, -9))

\* a step of the loop of solve_kepler_equation: an update is made only of
\* an estimate that has just failed the residual test, and counts as one
\* iteration; an estimate that passes the test is returned as it is; after
\* max_iterations updates the estimate is returned whatever its residual
TestThenUpdate ==
    (InKeplerLoop /\ pc = "loop") =>
        /\ pc' = "loop" =>
              /\ ~ResidualBelowTolerance(frame.E)
              /\ frame.iteration < args.max_iterations
              /\ frame'.iteration = frame.iteration + 1
              /\ frame'.E =
                    FSub(frame.E,
                         FDiv(kepler_equation(frame.E, args.e, args.M),
                              FSub(Num(1), FMul(args.e, MathCos(frame.E)))))
        /\ (frame.iteration < args.max_iterations
              /\ ResidualBelowTolerance(frame.E)) =>
              /\ pc' = "done" /\ ret' = Return(frame.E) /\ frame' = frame
        /\ frame.iteration >= args.max_iterations =>
              /\ pc' = "done" /\ ret' = Return(frame.E) /\ frame' = frame

\* a call of solve_kepler_equation with e >= 1e-6 that has returned: the
\* value is the last estimate, after at most max_iterations updates, and
\* after fewer than max_iterations updates its residual is below tolerance
ReturnedAfterTest ==
    (InKeplerLoop /\ pc = "done" /\ ret.kind = "return") =>
        /\ ret.value = frame.E
        /\ frame.iteration <= args.max_iterations
        /\ frame.iteration < args.max_iterations =>
              ResidualBelowTolerance(ret.value)
        /\ (frame.iteration = 0 /\ args.max_iterations > 0) =>
              ret.value = args.M

\* C26: in solve_kepler_equation with e >= 1e-6 the residual test precedes
\* each update: a call that returns after fewer than max_iterations updates
\* returns an E with |E - e*sin(E) - M| < tolerance (with zero updates when
\* the seed E0 = M already satisfies it), and a call that returns after
\* exactly max_iterations updates returns the value of the last update
\* without testing its residual
C26_ResidualTestPrecedesUpdate ==
    /\ []ReturnedAfterTest
    /\ [][TestThenUpdate]_vars

\* a call has returned after exactly max_iterations >= 1 updates a value
\* whose residual is not below the tolerance
C26_Witness ==
    /\ InKeplerLoop /\ pc = "done" /\ ret.kind = "return"
    /\ args.max_iterations >= 1
    /\ frame.iteration = args.max_iterations
    /\ ret.value = frame.E
    /\ ~ResidualBelowTolerance(ret.value)

\* C27: deflect_asteroid computes the shift with shift_from_dv before it
\* calls deflection_dv_for_shift; for every time_before_impact <= 0 the
\* ValueError of deflection_dv_for_shift leaves the handler, which returns
\* neither a result nor an error document; for every time_before_impact > 0
\* it returns a result whose distance_shifted_m is the product
\* delta_v * lead_time_seconds and whose success flag is true exactly when
\* distance_shifted_m > EARTH_RADIUS_M
C27_DeflectHandler ==
    op = "deflect_asteroid" =>
        /\ pc \in {"call", "required_dv", "done"}
        /\ pc = "call" => IsNone(frame)
        /\ pc # "call" =>
              /\ frame.lead_time_seconds = args.time_before_impact * 86400
              /\ frame.deflection_distance =
                    DblMulInt(args.delta_v, args.time_before_impact * 86400)
        /\ pc = "required_dv" => ret = Pending
        /\ (pc = "done" /\ args.time_before_impact <= 0) =>
              ret = Raise("ValueError")
        /\ (pc = "done" /\ args.time_before_impact > 0) =>
              /\ ret.kind = "return"
              /\ ret.value.deflection.distance_shifted_m =
                    DblMulInt(args.delta_v, args.time_before_impact * 86400)
              /\ ret.value.deflection.success =
                    DblGtInt(ret.value.deflection.distance_shifted_m,
                             EARTH_RADIUS_M)

\* the request with delta_v = 0.1 m/s and time_before_impact = 0 days has
\* ended with the ValueError, after the shift 0.0 was computed
C27_Witness ==
    /\ Done("deflect_asteroid")
    /\ args.delta_v = DblDivInt(1, 10)
    /\ args.time_before_impact = 0
    /\ frame.deflection_distance = DblZero
    /\ ret = Raise("ValueError")

\* a request of /api/simulate with positive diameter, velocity and density
\* has been answered
Simulated ==
    /\ Done("simulate_impact") /\ ret.kind = "return"
    /\ FGt(args.diameter, Zero) /\ FGt(args.velocity, Zero)
    /\ FGt(args.density, Zero)

\* the radii reported under direct_effects
Direct == ret.value.direct_effects

\* C28: simulate_impact, for every request with positive diameter, velocity
\* and density, reports positive thermal and seismic radii whenever it
\* reports a positive blast radius, for an airburst as well as for a ground
\* impact
C28_RadiiPositiveWithBlast ==
    (Simulated /\ FGt(Direct.blast_radius_km, Zero)) =>
        /\ FGt(Direct.thermal_radius_km, Zero)
        /\ FGt(Direct.seismic_radius_km, Zero)

\* what holds of the code: for a ground impact the thermal and seismic
\* radii are 6 and 10 crater diameters and positive with the blast radius;
\* for an airburst, whose result has no crater-based radii and a crater
\* diameter of 0.0, they are both 0.0 beside the blast radius R_5psi_m
C28_RadiiPositiveOnGround ==
    Simulated =>
        /\ Direct.blast_radius_km =
              FDiv(ret.value.radii_m.R_5psi_m, Num(1000))
        /\ ~ret.value.atmospheric.is_airburst =>
              /\ Direct.thermal_radius_km =
                    FDiv(FMul(Num(12), ret.value.crater.radius_m), Num(1000))
              /\ Direct.seismic_radius_km =
                    FDiv(FMul(Num(20), ret.value.crater.radius_m), Num(1000))
              /\ FGt(Direct.blast_radius_km, Zero) =>
                    /\ FGt(Direct.thermal_radius_km, Zero)
                    /\ FGt(Direct.seismic_radius_km, Zero)
        /\ ret.value.atmospheric.is_airburst =>
              /\ Direct.thermal_radius_km = Zero
              /\ Direct.seismic_radius_km = Zero
              /\ ret.value.infrastructure_damage.moderate_damage.radius = Zero
              /\ ret.value.infrastructure_damage.minor_damage.radius = Zero

\* the request with the defaults of the handler (diameter 100 m, 17 km/s,
\* 2600 kg/m3, strength 1e6 Pa) is an airburst with a positive blast radius
\* and thermal and seismic radii of 0.0
C28_Witness ==
    /\ Simulated
    /\ args.diameter = Num(100) /\ args.velocity = Num(17000)
    /\ args.density = Num(2600) /\ args.strength = F(1000, 3)
    /\ ret.value.atmospheric.is_airburst
    /\ FGt(Direct.blast_radius_km, Zero)
    /\ Direct.thermal_radius_km = Zero
    /\ Direct.seismic_radius_km = Zero

\* the entries of player_performance are the last ones recorded, in the
\* order of their arrival: their timestamps are consecutive
MostRecentInOrder(self) ==
    \A i \in 1..Len(self.player_performance) :
        self.player_performance[i].timestamp =
            Updates(self) - Len(self.player_performance) + i

\* C29: after any sequence of update_performance calls difficulty_level
\* stays within [0.5, 3.0], it is still 1.0 while fewer than 3 performances
\* have been recorded, and player_performance holds at most
\* performance_window = 10 entries, the most recent ones in arrival order
C29_DifficultyWithinLimits ==
    /\ FGe(adaptive_difficulty.difficulty_level, F(5000, -4))
    /\ FLe(adaptive_difficulty.difficulty_level, Num(3))
    /\ Updates(adaptive_difficulty) < 3 =>
          adaptive_difficulty.difficulty_level = Num(1)
    /\ adaptive_difficulty.performance_window = 10
    /\ Len(adaptive_difficulty.player_performance) =
          IF Updates(adaptive_difficulty) < 10
          THEN Updates(adaptive_difficulty) ELSE 10
    /\ MostRecentInOrder(adaptive_difficulty)

\* fourteen strong games have been recorded: the window holds the last ten
\* and the level, 1.1^11 = 2.853 before the last one, stands at the limit 3.0
C29_Witness ==
    /\ Updates(adaptive_difficulty) = 14
    /\ Len(adaptive_difficulty.player_performance) = 10
    /\ adaptive_difficulty.player_performance[1].timestamp = 5
    /\ adaptive_difficulty.difficulty_level = Num(3)
    /\ FGt(FMul(F(2853, -3), F(1100, -3)), Num(3))

\* C30: get_scenario_parameters(base_scenario) leaves its argument
\* unchanged, the nested asteroid and success_criteria records included,
\* so a repeated call on the same base scenario gives the same adapted
\* result as the call before it, the difficulty level being the same
C30_ArgumentUnchanged ==
    [][op = "get_scenario_parameters" =>
          /\ args'.base_scenario = args.base_scenario
          /\ ret.kind = "return" => ret' = ret]_vars

\* what holds of the code: a call multiplies the diameter and the minimum
\* deflection distance of the argument by the difficulty level, as it does
\* in its result, and leaves the other keys of the argument, time_to_impact
\* among them, as they were; the argument and a repeated result are
\* unchanged only at the level 1.0 and when the call ends with KeyError
C30_NestedRecordsScaled ==
    [][op = "get_scenario_parameters" =>
          /\ adaptive_difficulty' = adaptive_difficulty
          /\ "asteroid" \notin DOMAIN args.base_scenario =>
                /\ ret' = Raise("KeyError")
                /\ args' = args
          /\ "asteroid" \in DOMAIN args.base_scenario =>
                /\ ret'.kind = "return"
                /\ args'.base_scenario.asteroid.diameter =
                      FMul(args.base_scenario.asteroid.diameter,
                           adaptive_difficulty.difficulty_level)
                /\ args'.base_scenario.success_criteria.min_deflection_distance =
                      FMul(args.base_scenario.success_criteria.min_deflection_distance,
                           adaptive_difficulty.difficulty_level)
                /\ args'.base_scenario.success_criteria.max_time_remaining =
                      args.base_scenario.success_criteria.max_time_remaining
                /\ args'.base_scenario.time_to_impact =
                      args.base_scenario.time_to_impact
                /\ args'.base_scenario.id = args.base_scenario.id
                /\ ret'.value.asteroid = args'.base_scenario.asteroid
                /\ ret'.value.success_criteria =
                      args'.base_scenario.success_criteria
                /\ ret'.value.time_to_impact =
                      PyInt(FDiv(Num(args.base_scenario.time_to_impact),
                                 adaptive_difficulty.difficulty_level))
                /\ adaptive_difficulty.difficulty_level = Num(1) =>
                      /\ args' = args
                      /\ ret.kind = "return" => ret' = ret]_vars

\* two calls at the level 1.1 on the scenario of 100 m and 30 days: the
\* argument has the diameter 121 and the distance 1210, as the second
\* result has, whose time_to_impact is int(30 / 1.1) = 27
C30_Witness ==
    /\ op = "get_scenario_parameters" /\ frame.calls = 2
    /\ adaptive_difficulty.difficulty_level = F(1100, -3)
    /\ args.base_scenario.id = "custom_1"
    /\ args.base_scenario.asteroid.diameter = Num(121)
    /\ args.base_scenario.success_criteria.min_deflection_distance = Num(1210)
    /\ args.base_scenario.time_to_impact = 30
    /\ ret = Return([args.base_scenario EXCEPT !.time_to_impact = 27])

=============================================================================
